---- MODULE Spec2Model ----
(***************************************************************************)
(* Model of the in-process App runtime of loom-sdk: the per-instance       *)
(* ApplicationStateMachine (app.state-machine.js) and the AppsModule       *)
(* orchestrator (apps.module.js, the variant that keeps the pid indices    *)
(* and the global alias index).                                            *)
(*                                                                         *)
(* Every action is one complete command, from its call to its return or    *)
(* throw, except where a command is taken at its awaits. Spec runs the     *)
(* lifecycle commands on the instances of two apps; SpecAlias runs the     *)
(* commands that maintain the registry and the indices (register, spawn,   *)
(* stop and setAlias on a handle); SpecSteps runs the lifecycle commands   *)
(* with stop in its two parts; SpecMachine drives one state machine by     *)
(* its public helpers; SpecScenario runs the end-to-end scenario; SpecApi  *)
(* runs spawn, stop, broadcast and api; SpecLookup the lookups by alias;   *)
(* SpecValidation the commands that validate their arguments; SpecPids     *)
(* status, call and stop by name and alias and by pid; SpecTasks callers   *)
(* whose commands wait at their hooks while other commands run;            *)
(* SpecCallers two callers with a sequence of commands each on instances   *)
(* of their own; SpecBoot setup() and the autostart driver; SpecSpawns     *)
(* spawns that wait at onCreate while other spawns run; SpecHandles        *)
(* callers that keep a handle while instances are stopped and spawned.     *)
(***************************************************************************)
EXTENDS Integers, Sequences, FiniteSets, TLC

\* ------------------------------------------------------------------ bounds

\* Number of pids the model lets #nextPid hand out.
MaxSpawns == 2
\* Largest value of the clock read by Date.now().
MaxTime == 1
\* Number of instances the callers of the lifecycle commands keep at a time.
MaxLive == 1
\* Number of stop commands that wait at an await at a time.
MaxPending == 1
\* Commands that wait for a hook at the same time.
MaxTasks == 2
\* Commands in the sequence of one of two concurrent callers.
MaxScript == 2
\* Handles a caller keeps at a time.
MaxHandles == 1

\* ------------------------------------------------------------------ inputs

\* App names used by callers.
Names == {"worker", "reader"}
\* Aliases that callers choose themselves when they spawn: a word, and a
\* numeric string that a later pid will spell.
UserAliases == {"a", "1002"}
\* An alias no instance ever has.
GhostAlias == "ghost"
\* An omitted alias argument (null / undefined).
NoAlias == "<null>"
\* A new alias that is not a string (a number other than 0).
NumberAlias == "<number>"
\* The alias argument of spawn: a user alias or none.
SpawnArgs == UserAliases \cup {NoAlias}
\* First value of the pid counter.
PidBase == 1000
Pids == (PidBase + 1)..(PidBase + MaxSpawns)
\* String(pid): the default alias of an instance.
PidString(pid) == ToString(pid)
\* Every alias a caller may pass to a command; the empty string is one.
AliasArgs == UserAliases \cup {PidString(p) : p \in Pids} \cup {"", GhostAlias}

\* App classes a caller may register: one without hooks, one with all of them.
AllHooks == {"onCreate", "onActivate", "onDeactivate", "onSuspend", "onResume",
             "onTerminate", "onSignal"}
AppClasses == {"BareApp", "HookedApp"}
HooksOfClass(cls) == IF cls = "HookedApp" THEN AllHooks ELSE {}
\* The class the callers register under each name.
AppClassOf(name) == IF name = "worker" THEN "HookedApp" ELSE "BareApp"
\* What an invoked hook does.
HookBehaviours == {"ok", "throw"}
Modes == {"foreground", "background"}
\* What the API object of an instance does with the method a caller names: it
\* has the method and the method returns, or throws, or it lacks the method.
ApiBehaviours == {"returns", "throws", "lacks"}
\* The dependency bag given to the AppsModule constructor (the adapters), and
\* its console.
Dependencies == "dependencies"
DependenciesConsole == "dependencies.console"
\* Signal arguments; the empty string is a falsy sig.
Signals == {"SIGUSR1", ""}

\* ------------------------------------------------- ApplicationStateMachine

INACTIVE == "INACTIVE"
ACTIVE_FOREGROUND == "ACTIVE_FOREGROUND"
ACTIVE_BACKGROUND == "ACTIVE_BACKGROUND"
SUSPENDED == "SUSPENDED"
TERMINATING == "TERMINATING"
TERMINATED == "TERMINATED"
CRASHED == "CRASHED"
\* state before CREATE
NullState == "null"

ApplicationStates == {INACTIVE, ACTIVE_FOREGROUND, ACTIVE_BACKGROUND, SUSPENDED,
                      TERMINATING, TERMINATED, CRASHED}

ApplicationEvents == {"CREATE", "ACTIVATE_FOREGROUND", "ACTIVATE_BACKGROUND",
                      "DEACTIVATE", "SUSPEND", "RESUME", "STOP", "SIGNAL", "FAIL"}

\* `${from ?? '∅'}::${on}`
TransitionKey(from, on) == (IF from = NullState THEN "0" ELSE from) \o "::" \o on

\* T(from, on, to, effect): the effect is the hook it calls, "none" for a no-op.
T(from, on, to, effect) == [from |-> from, on |-> on, to |-> to, effect |-> effect]

\* SIGNAL passthrough: the target is the state the entry starts from.
\* (SignalEntriesMoving is the faulty table whose SIGNAL entries lead to
\* INACTIVE.)
SignalEntriesMoving ==
  {T(s, "SIGNAL", INACTIVE, "onSignal") :
     s \in {INACTIVE, ACTIVE_FOREGROUND, ACTIVE_BACKGROUND, SUSPENDED}}
SignalEntries ==
  {T(s, "SIGNAL", s, "onSignal") :
     s \in {INACTIVE, ACTIVE_FOREGROUND, ACTIVE_BACKGROUND, SUSPENDED}}

\* SUSPENDED -> INACTIVE on RESUME. (ResumeEntriesActive is the faulty table
\* whose RESUME leads back to ACTIVE_FOREGROUND.)
ResumeEntriesActive == {T(SUSPENDED, "RESUME", ACTIVE_FOREGROUND, "onResume")}
ResumeEntries == {T(SUSPENDED, "RESUME", INACTIVE, "onResume")}

TransitionEntries ==
       {T(NullState, "CREATE", INACTIVE, "onCreate")}
  \cup {T(INACTIVE, "ACTIVATE_FOREGROUND", ACTIVE_FOREGROUND, "onActivate"),
        T(INACTIVE, "ACTIVATE_BACKGROUND", ACTIVE_BACKGROUND, "onActivate")}
  \cup {T(s, "DEACTIVATE", INACTIVE, "onDeactivate") :
           s \in {ACTIVE_FOREGROUND, ACTIVE_BACKGROUND}}
  \cup {T(s, "SUSPEND", SUSPENDED, "onSuspend") :
           s \in {INACTIVE, ACTIVE_FOREGROUND, ACTIVE_BACKGROUND}}
  \cup ResumeEntries
  \cup {T(s, "STOP", TERMINATING, "onTerminate") :
           s \in {INACTIVE, ACTIVE_FOREGROUND, ACTIVE_BACKGROUND, SUSPENDED}}
  \cup {T(TERMINATING, "STOP", TERMINATED, "none")}
  \cup SignalEntries
  \cup {T(s, "FAIL", CRASHED, "none") :
           s \in {INACTIVE, ACTIVE_FOREGROUND, ACTIVE_BACKGROUND, SUSPENDED,
                  TERMINATING}}

\* The Map TRANSITIONS, keyed by the key string.
TransitionKeys == {TransitionKey(e.from, e.on) : e \in TransitionEntries}
TRANSITIONS ==
  [k \in TransitionKeys |->
     CHOOSE e \in TransitionEntries : TransitionKey(e.from, e.on) = k]

NoEntry == [from |-> "-", on |-> "-", to |-> "-", effect |-> "-"]
TransitionsGet(key) == IF key \in DOMAIN TRANSITIONS THEN TRANSITIONS[key] ELSE NoEntry

\* The argument an effect passes to its hook besides ctx: the mode for
\* onActivate, `ctx.options.sig || 'SIGHUP'` for onSignal.
EffectArg(entry, options) ==
  CASE entry.on = "ACTIVATE_FOREGROUND" -> "foreground"
    [] entry.on = "ACTIVATE_BACKGROUND" -> "background"
    [] entry.on = "SIGNAL" -> (IF options.sig = "" THEN "SIGHUP" ELSE options.sig)
    [] OTHER -> "-"

\* The hook calls entry.effect(app, ctx) makes on an app of class cls: the hook
\* when the app implements it, and for STOP only when options.force is not set.
EffectHooks(entry, cls, options, ctx) ==
  IF entry.effect = "none" \/ entry.effect \notin HooksOfClass(cls) THEN << >>
  ELSE IF entry.on = "STOP" /\ options.force THEN << >>
  ELSE << [hook |-> entry.effect, arg |-> EffectArg(entry, options), ctx |-> ctx] >>

\* inferPhase(event)
InferPhase(event) ==
  CASE event = "CREATE" -> "create"
    [] event \in {"ACTIVATE_FOREGROUND", "ACTIVATE_BACKGROUND"} -> "activate"
    [] event = "DEACTIVATE" -> "deactivate"
    [] event = "SUSPEND" -> "suspend"
    [] event = "RESUME" -> "resume"
    [] event \in {"STOP", "FAIL"} -> "terminate"
    [] event = "SIGNAL" -> "signal"
    [] OTHER -> "unknown"

\* An absent property, and the value of a property that was never assigned.
Undefined == "undefined"

\* AppsModule #context(phase, name, alias, opts, pid): the context builder the
\* module hands to the state machine of the instance with this pid.
Context(phase, name, alias, opts, pid) ==
  [phase |-> phase, name |-> name, alias |-> alias, pid |-> pid, options |-> opts,
   adapters |-> Dependencies, logger |-> DependenciesConsole]

\* #makeCtx(phase, options): the context of the builder the machine holds in
\* _makeContext, or the minimal context when it holds none (which has no pid:
\* 0 here, as for every absent pid).
MakeCtx(sm, phase, options) ==
  IF sm.makeContext # Undefined
    THEN Context(phase, sm.name, sm.alias, options, sm.makeContext.pid)
  ELSE [phase |-> phase, name |-> sm.name, alias |-> sm.alias, pid |-> 0,
        options |-> options, adapters |-> "{}", logger |-> "console"]

\* The `at` of a transition record emitted without one: a value no clock gives.
NoAt == -1

\* Outcome of a transition request that changed nothing. (RejectedCrashing is
\* the faulty refusal that leaves the machine CRASHED.)
RejectedCrashing(sm, kind) ==
  [sm |-> [sm EXCEPT !.state = CRASHED], err |-> kind, hooks |-> << >>,
   records |-> << >>]
Rejected(sm, kind) ==
  [sm |-> sm, err |-> kind, hooks |-> << >>, records |-> << >>]

\* The state #apply commits: entry.to in the try block, CRASHED in the catch.
\* (LandingNominal is the faulty catch that commits entry.to all the same.)
LandingNominal(entry, threw) == entry.to
Landing(entry, threw) == IF threw THEN CRASHED ELSE entry.to

\* #apply(entry, options): runs the effect, then commits entry.to, or CRASHED
\* when the hook threw; t is the value Date.now() returns.
Apply(sm, entry, options, hb, t) ==
  LET hooks == EffectHooks(entry, sm.app, options,
                           MakeCtx(sm, InferPhase(entry.on), options))
      threw == hooks # << >> /\ hb = "throw"
      next == Landing(entry, threw)
  IN [sm |-> [sm EXCEPT !.state = next, !.lastTransitionAt = t],
      err |-> IF threw THEN "HookFailure" ELSE "none",
      hooks |-> hooks,
      records |-> << [name |-> sm.name, alias |-> sm.alias, from |-> sm.state,
                      on |-> entry.on, to |-> next,
                      at |-> IF threw THEN NoAt ELSE t, error |-> threw] >>]

\* transition(event, options)
Transition(sm, event, options, hb, t) ==
  LET from == sm.state
      entry == TransitionsGet(TransitionKey(from, event))
      last == TransitionsGet(TransitionKey(TERMINATING, "STOP"))
  IN IF entry = NoEntry /\ from = TERMINATING /\ event = "STOP" /\ last # NoEntry
       THEN Apply(sm, last, options, hb, t)
     ELSE IF entry = NoEntry
       THEN Rejected(sm, "InvalidTransition")
     ELSE Apply(sm, entry, options, hb, t)

\* Command options; the effects read only force and sig ("" when not given).
Options(force, sig) == [force |-> force, sig |-> sig]
NoOptions == Options(FALSE, "")

\* -------------------------------------------------------------- AppsModule

VARIABLES
  registry,          \* _registry: name -> [AppClass, instances: alias -> instance]
  objs,              \* the instance objects (with their state machine), by reference
  pidSeq,            \* _pidSeq
  processIndex,      \* _processIndex: pid -> [name, alias]
  instanceIndex,     \* _instanceIndex: `${name}:${alias}` -> pid
  globalAliasIndex,  \* _globalAliasIndex: alias -> [name, alias]
  now,               \* the clock behind Date.now()
  result,            \* what the last command returned or threw, the constructor and
                     \* hooks it called and the transition records it emitted
  pending            \* the commands that have been called and wait at an await

vars == << registry, objs, pidSeq, processIndex, instanceIndex, globalAliasIndex,
           now, result, pending >>

\* The registry and the three indices.
stores == << registry, processIndex, instanceIndex, globalAliasIndex >>

\* Map helpers (Map.set, Map.delete, Map.get of a key that may be absent).
EmptyMap == << >>
MapSet(m, k, v) == [x \in DOMAIN m \cup {k} |-> IF x = k THEN v ELSE m[x]]
MapDelete(m, k) == [x \in DOMAIN m \ {k} |-> m[x]]
Has(m, k) == k \in DOMAIN m

\* null / undefined: as a name, alias or argument, as a pid (falsy, like 0), as
\* an object reference, and as a returned value.
Null == "null"
NoPid == 0
NoRef == 0
NoRet == << >>

\* `${name}:${alias}`
InstanceKey(name, alias) == name \o ":" \o alias

\* this._instanceIndex.get(key) || null
PidOrNull(name, alias) ==
  IF Has(instanceIndex, InstanceKey(name, alias))
    THEN instanceIndex[InstanceKey(name, alias)] ELSE NoPid

\* What a command leaves behind for its caller and the observers.
Outcome(cmd, err, ret, hooks, ctor, records) ==
  [cmd |-> cmd, err |-> err, ret |-> ret, hooks |-> hooks, ctor |-> ctor,
   records |-> records]

\* A command that threw before it touched anything.
Threw(cmd, err) == Outcome(cmd, err, NoRet, << >>, FALSE, << >>)

\* A command that returned without a transition.
Returned(cmd, ret) == Outcome(cmd, "none", ret, << >>, FALSE, << >>)

\* Date.now(): a command that reads the clock reads t, which is now or later;
\* a command that does not read it leaves the last value read as it is.
Clock(reads, t) ==
  /\ t \in now..(IF reads /\ now < MaxTime THEN now + 1 ELSE now)
  /\ now' = t

\* hb is what the hook does when a command invokes one; a command that invokes
\* none is the same command under either value, and is taken under "ok".
Behaves(hooks, hb) == hooks = << >> => hb = "ok"

\* What a command does when it finds no instance under (name, alias): stop
\* returns, the others throw from #instance. (AbsentThrowing is the faulty
\* stop that resolves its instance through #instance too.)
AbsentThrowing(cmd) == Threw(cmd, "InstanceNotRunning")
Absent(cmd) ==
  IF cmd = "stop" THEN Returned(cmd, NoRet) ELSE Threw(cmd, "InstanceNotRunning")

Init ==
  /\ registry = EmptyMap
  /\ objs = EmptyMap
  /\ pidSeq = PidBase
  /\ processIndex = EmptyMap
  /\ instanceIndex = EmptyMap
  /\ globalAliasIndex = EmptyMap
  /\ now = 0
  /\ result = Returned("new", NoRet)
  /\ pending = << >>

\* register(name, AppClass, meta)
Register(name, AppClass) ==
  LET entry == IF Has(registry, name) THEN registry[name]
               ELSE [AppClass |-> Null, instances |-> EmptyMap]
  IN /\ registry' = MapSet(registry, name, [entry EXCEPT !.AppClass = AppClass])
     /\ result' = Returned("register", NoRet)
     /\ UNCHANGED << objs, pidSeq, processIndex, instanceIndex, globalAliasIndex,
                     now, pending >>

\* #nextPid(): do { _pidSeq += 1 } while (_processIndex.has(_pidSeq))
\* (NextPidReusing is the faulty allocator that hands out the lowest pid that
\* no live instance has.)
NextPidReusing ==
  CHOOSE p \in (PidBase + 1)..(PidBase + 1 + Cardinality(DOMAIN processIndex)) :
    /\ ~Has(processIndex, p)
    /\ \A q \in (PidBase + 1)..(p - 1) : Has(processIndex, q)
NextPid ==
  CHOOSE p \in (pidSeq + 1)..(pidSeq + 1 + Cardinality(DOMAIN processIndex)) :
    /\ ~Has(processIndex, p)
    /\ \A q \in (pidSeq + 1)..(p - 1) : Has(processIndex, q)

\* A reference to a newly allocated object.
NewRef == CHOOSE o \in 1..(Cardinality(DOMAIN objs) + 1) : ~Has(objs, o)

\* new ApplicationStateMachine({ app, name, alias, state: null, makeContext, ... })
\* wrapped in the instance object { app, pid, stateMachine, ... }. The
\* constructor assigns app, name, alias, logger, state and the two times; the
\* makeContext it is given is assigned to nothing.
NewInstance(cls, name, alias, pid, t) ==
  [app |-> cls, pid |-> pid, name |-> name, alias |-> alias, state |-> NullState,
   lastTransitionAt |-> t, makeContext |-> Undefined]

\* The registry and the three indices as one value, and the action that
\* installs such a value.
Stores == [registry |-> registry, processIndex |-> processIndex,
           instanceIndex |-> instanceIndex, globalAliasIndex |-> globalAliasIndex]
Commit(st) ==
  /\ registry' = st.registry
  /\ processIndex' = st.processIndex
  /\ instanceIndex' = st.instanceIndex
  /\ globalAliasIndex' = st.globalAliasIndex

\* spawn, lines 337-342: registers the instance in the class's alias map and
\* in the three indices.
InsertInstance(name, alias, ref, pid) ==
  [registry |-> [registry EXCEPT ![name].instances = MapSet(@, alias, ref)],
   processIndex |-> MapSet(processIndex, pid, [name |-> name, alias |-> alias]),
   instanceIndex |-> MapSet(instanceIndex, InstanceKey(name, alias), pid),
   globalAliasIndex |-> MapSet(globalAliasIndex, alias,
                               [name |-> name, alias |-> alias])]

\* stop, lines 433-444: drops the instance from the class's alias map and
\* cleans the indices. (RemoveInstanceKeepingPid is the faulty removal that
\* leaves the entry of the pid index.)
RemoveInstanceKeepingPid(name, alias) ==
  LET pid == PidOrNull(name, alias)
  IN [registry |-> [registry EXCEPT ![name].instances = MapDelete(@, alias)],
      processIndex |-> processIndex,
      instanceIndex |-> IF pid # NoPid
                          THEN MapDelete(instanceIndex, InstanceKey(name, alias))
                        ELSE instanceIndex,
      globalAliasIndex |-> MapDelete(globalAliasIndex, alias)]
RemoveInstance(name, alias) ==
  LET pid == PidOrNull(name, alias)
  IN [registry |-> [registry EXCEPT ![name].instances = MapDelete(@, alias)],
      processIndex |-> IF pid # NoPid THEN MapDelete(processIndex, pid)
                       ELSE processIndex,
      instanceIndex |-> IF pid # NoPid
                          THEN MapDelete(instanceIndex, InstanceKey(name, alias))
                        ELSE instanceIndex,
      globalAliasIndex |-> MapDelete(globalAliasIndex, alias)]

\* #instance(name, alias): the instance object, Null when there is none (the
\* callers throw 'App instance not running').
Instance(name, alias) ==
  IF Has(registry, name) /\ Has(registry[name].instances, alias)
    THEN registry[name].instances[alias] ELSE NoRef

\* spawn: the alias of the instance, String(pid) when the caller gave none.
\* (SpawnAliasDefault is the faulty spawn that names such an instance
\* "default".)
SpawnAliasDefault(aliasArg, pid) == IF aliasArg = NoAlias THEN "default" ELSE aliasArg
SpawnAlias(aliasArg, pid) == IF aliasArg = NoAlias THEN PidString(pid) ELSE aliasArg

\* spawn: what it returns when the app already has an instance under the
\* alias. (SpawnExistingFresh is the faulty return of the pid just allocated.)
SpawnExistingFresh(name, alias, pid) == [alias |-> alias, pid |-> pid]
SpawnExisting(name, alias, pid) == [alias |-> alias, pid |-> PidOrNull(name, alias)]

\* spawn(name, alias, opts): what it does to everything but the commands that
\* wait.
SpawnDoes(name, aliasArg, hb, t) ==
  /\ IF ~Has(registry, name) \/ registry[name].AppClass = Null
       THEN /\ Clock(FALSE, t)
            /\ Behaves(<< >>, hb)
            /\ result' = Threw("spawn", "AppNotRegistered")
            /\ UNCHANGED << stores, objs, pidSeq >>
       ELSE /\ LET registryApp == registry[name]
                   pid == NextPid
                   alias == SpawnAlias(aliasArg, pid)
                   created == Transition(
                                NewInstance(registryApp.AppClass, name, alias, pid, now),
                                "CREATE", NoOptions, hb, t)
                   ref == NewRef
               IN /\ pidSeq' = pid
                  /\ Clock(~Has(registryApp.instances, alias), t)
                  /\ Behaves(IF Has(registryApp.instances, alias) THEN << >>
                              ELSE created.hooks, hb)
                  /\ IF Has(registryApp.instances, alias)
                       THEN /\ result' = Returned("spawn", SpawnExisting(name, alias, pid))
                            /\ UNCHANGED << stores, objs >>
                     ELSE IF created.err # "none"
                       THEN /\ result' = Outcome("spawn", created.err, NoRet, created.hooks, TRUE, created.records)
                            /\ UNCHANGED << stores, objs >>
                     ELSE /\ objs' = MapSet(objs, ref, created.sm)
                          /\ Commit(InsertInstance(name, alias, ref, pid))
                          /\ result' = Outcome("spawn", "none",
                                         [alias |-> alias, pid |-> pid],
                                         created.hooks, TRUE, created.records)

\* spawn(name, alias, opts) by callers that spawn while pids are left
Spawn(name, aliasArg, hb, t) ==
  /\ pending' = pending
  /\ (Has(registry, name) /\ registry[name].AppClass # Null) =>
       pidSeq < PidBase + MaxSpawns
  /\ SpawnDoes(name, aliasArg, hb, t)

\* The shape shared by activate, deactivate, resume and signal: resolve the
\* instance, drive one event on its state machine, rethrow what it throws.
\* (DriveDoes: what it does to everything but the commands that wait.)
DriveDoes(cmd, name, alias, event, options, hb, t) ==
  /\ UNCHANGED << stores, pidSeq >>
  /\ LET ref == Instance(name, alias)
     IN IF ref = NoRef
          THEN /\ Clock(FALSE, t)
               /\ Behaves(<< >>, hb)
               /\ result' = Absent(cmd)
               /\ objs' = objs
        ELSE LET done == Transition(objs[ref], event, options, hb, t)
             IN /\ Clock(done.records # << >>, t)
                /\ Behaves(done.hooks, hb)
                /\ objs' = [objs EXCEPT ![ref] = done.sm]
                /\ result' = Outcome(cmd, done.err, NoRet,
                                     done.hooks, FALSE, done.records)
Drive(cmd, name, alias, event, options, hb, t) ==
  /\ pending' = pending
  /\ DriveDoes(cmd, name, alias, event, options, hb, t)

\* activate: the event it drives for opts.mode
ActivateEvent(mode) ==
  IF mode = "background" THEN "ACTIVATE_BACKGROUND" ELSE "ACTIVATE_FOREGROUND"

\* activate(name, alias, opts)
Activate(name, alias, mode, hb, t) ==
  Drive("activate", name, alias, ActivateEvent(mode), NoOptions, hb, t)

\* deactivate(name, alias, opts)
Deactivate(name, alias, hb, t) ==
  Drive("deactivate", name, alias, "DEACTIVATE", NoOptions, hb, t)

\* suspend: the test `instance.state !== 'SUSPENDED'` that guards the event.
\* (SuspendSkippedNever is the faulty suspend that drives the event in every
\* state.)
SuspendSkippedNever(state) == FALSE
SuspendSkipped(state) == state = SUSPENDED

\* suspend(name, alias, opts): skipped when the instance is SUSPENDED already
\* (SuspendDoes: what it does to everything but the commands that wait.)
SuspendDoes(name, alias, hb, t) ==
  LET ref == Instance(name, alias)
  IN IF ref # NoRef /\ SuspendSkipped(objs[ref].state)
       THEN /\ Clock(FALSE, t)
            /\ Behaves(<< >>, hb)
            /\ result' = Returned("suspend", NoRet)
            /\ UNCHANGED << stores, objs, pidSeq >>
     ELSE DriveDoes("suspend", name, alias, "SUSPEND", NoOptions, hb, t)
Suspend(name, alias, hb, t) ==
  /\ pending' = pending
  /\ SuspendDoes(name, alias, hb, t)

\* resume(name, alias, opts)
Resume(name, alias, hb, t) ==
  Drive("resume", name, alias, "RESUME", NoOptions, hb, t)

\* signal(name, alias, sig, opts)
Signal(name, alias, sig, hb, t) ==
  Drive("signal", name, alias, "SIGNAL", Options(FALSE, sig), hb, t)

\* stop(name, alias, opts)
\* (StopDoes: what it does to everything but the commands that wait.)
StopDoes(name, alias, force, hb, t) ==
  /\ pidSeq' = pidSeq
  /\ LET ref == Instance(name, alias)
     IN IF ref = NoRef
          THEN /\ Clock(FALSE, t)
               /\ Behaves(<< >>, hb)
               /\ result' = Absent("stop")
               /\ UNCHANGED << stores, objs >>
        ELSE LET terminating == Transition(objs[ref], "STOP", Options(force, ""), hb, t)
                 terminated == Transition(terminating.sm, "STOP", NoOptions, hb, t)
                 hooks == terminating.hooks \o terminated.hooks
                 records == terminating.records \o terminated.records
             IN /\ Clock(terminating.records # << >>, t)
                /\ Behaves(terminating.hooks, hb)
                /\ IF terminating.err # "none"
                     THEN /\ objs' = [objs EXCEPT ![ref] = terminating.sm]
                          /\ result' = Outcome("stop", terminating.err, NoRet,
                                         terminating.hooks, FALSE, terminating.records)
                          /\ UNCHANGED stores
                   ELSE IF terminated.err # "none"
                     THEN /\ objs' = [objs EXCEPT ![ref] = terminated.sm]
                          /\ result' = Outcome("stop", terminated.err, NoRet,
                                         hooks, FALSE, records)
                          /\ UNCHANGED stores
                   ELSE /\ objs' = MapDelete(objs, ref)
                        /\ Commit(RemoveInstance(name, alias))
                        /\ result' = Outcome("stop", "none", NoRet, hooks, FALSE,
                                              records)
Stop(name, alias, force, hb, t) ==
  /\ pending' = pending
  /\ StopDoes(name, alias, force, hb, t)

\* A sequence without its i-th element.
Without(seq, i) == SubSeq(seq, 1, i - 1) \o SubSeq(seq, i + 1, Len(seq))

\* stop(name, alias, opts) up to the return of its first await, lines 419-428:
\* the instance is resolved and the first STOP is driven on its state machine;
\* when that succeeds the command waits, holding name, alias and the instance.
StopBegin(name, alias, force, hb, t) ==
  /\ pidSeq' = pidSeq
  /\ UNCHANGED stores
  /\ LET ref == Instance(name, alias)
     IN IF ref = NoRef
          THEN /\ Clock(FALSE, t)
               /\ Behaves(<< >>, hb)
               /\ result' = Absent("stop")
               /\ UNCHANGED << objs, pending >>
        ELSE LET terminating == Transition(objs[ref], "STOP", Options(force, ""), hb, t)
             IN /\ Clock(terminating.records # << >>, t)
                /\ Behaves(terminating.hooks, hb)
                /\ objs' = [objs EXCEPT ![ref] = terminating.sm]
                /\ IF terminating.err # "none"
                     THEN /\ result' = Outcome("stop", terminating.err, NoRet,
                                         terminating.hooks, FALSE, terminating.records)
                          /\ pending' = pending
                   ELSE /\ result' = Outcome("stopping", "none", NoRet,
                                       terminating.hooks, FALSE, terminating.records)
                        /\ pending' = Append(pending, [name |-> name, alias |-> alias,
                                                       ref |-> ref])

\* The rest of the i-th waiting stop, lines 431-446: the second STOP on the
\* state machine of the instance it holds, then the removal of what is under
\* (name, alias) from the app's alias map and the indices. The instance object
\* goes when no other waiting command holds it.
StopFinish(i, hb, t) ==
  LET task == pending[i]
      terminated == Transition(objs[task.ref], "STOP", NoOptions, hb, t)
      held == \E j \in DOMAIN pending : j # i /\ pending[j].ref = task.ref
  IN /\ pidSeq' = pidSeq
     /\ pending' = Without(pending, i)
     /\ Clock(terminated.records # << >>, t)
     /\ Behaves(terminated.hooks, hb)
     /\ result' = Outcome("stop", terminated.err, NoRet, terminated.hooks, FALSE,
                          terminated.records)
     /\ IF terminated.err # "none"
          THEN /\ objs' = [objs EXCEPT ![task.ref] = terminated.sm]
               /\ UNCHANGED stores
        ELSE /\ objs' = IF held THEN [objs EXCEPT ![task.ref] = terminated.sm]
                        ELSE MapDelete(objs, task.ref)
             /\ Commit(RemoveInstance(task.name, task.alias))

\* transition(event, options) up to the entry it applies (NoEntry when it
\* throws the invalid-transition error).
EntryOf(sm, event) ==
  LET entry == TransitionsGet(TransitionKey(sm.state, event))
      last == TransitionsGet(TransitionKey(TERMINATING, "STOP"))
  IN IF entry = NoEntry /\ sm.state = TERMINATING /\ event = "STOP" THEN last ELSE entry

\* The hook calls transition(event, options) makes on the machine sm before it
\* waits at `await entry.effect(this.app, ctx)`.
HooksOf(sm, event, options) ==
  IF EntryOf(sm, event) = NoEntry THEN << >>
  ELSE EffectHooks(EntryOf(sm, event), sm.app, options,
                   MakeCtx(sm, InferPhase(EntryOf(sm, event).on), options))

\* A command on (name, alias) that drives event calls a hook and waits for it.
Waits(name, alias, event, options) ==
  /\ Instance(name, alias) # NoRef
  /\ HooksOf(objs[Instance(name, alias)], event, options) # << >>

\* A command up to the hook it waits for: it has resolved its instance,
\* transition has read the state and found the entry, #apply has kept the
\* state as prev and called the effect, and the effect has called the hook.
\* The command holds its name and alias arguments and the instance.
\* (Awaiting is what the command holds while it waits, Await the step for
\* callers that keep the waiting commands in the order of their calls.)
Awaiting(cmd, name, alias, event, options) ==
  [cmd |-> cmd, name |-> name, alias |-> alias, ref |-> Instance(name, alias),
   prev |-> objs[Instance(name, alias)].state,
   entry |-> EntryOf(objs[Instance(name, alias)], event), options |-> options]
AwaitDoes(cmd, name, alias, event, options) ==
  /\ result' = Outcome("await", "none", NoRet,
                       HooksOf(objs[Instance(name, alias)], event, options), FALSE, << >>)
  /\ UNCHANGED << stores, objs, pidSeq, now >>
Await(cmd, name, alias, event, options) ==
  /\ pending' = Append(pending, Awaiting(cmd, name, alias, event, options))
  /\ AwaitDoes(cmd, name, alias, event, options)

\* The instance object ref is still reachable: the alias maps of reg hold it,
\* or a waiting command other than the i-th does.
Reachable(ref, reg, i) ==
  \/ \E name \in DOMAIN reg : \E alias \in DOMAIN reg[name].instances :
        reg[name].instances[alias] = ref
  \/ \E j \in DOMAIN pending : j # i /\ pending[j].ref = ref

\* stop after its first STOP has left the machine as sm, lines 431-446: the
\* second STOP, then the removal of what is under (name, alias) from the alias
\* map and the indices; i is the waiting command this is the rest of (0 for a
\* stop that did not wait).
StopRest(name, alias, ref, sm, hooks, records, i, t) ==
  LET terminated == Transition(sm, "STOP", NoOptions, "ok", t)
      removed == RemoveInstance(name, alias)
  IN IF terminated.err # "none"
       THEN /\ objs' = [objs EXCEPT ![ref] = terminated.sm]
            /\ UNCHANGED stores
            /\ result' = Outcome("stop", terminated.err, NoRet, hooks, FALSE, records)
     ELSE /\ objs' = IF Reachable(ref, removed.registry, i)
                       THEN [objs EXCEPT ![ref] = terminated.sm]
                     ELSE MapDelete(objs, ref)
          /\ Commit(removed)
          /\ result' = Outcome("stop", "none", NoRet, hooks, FALSE,
                               records \o terminated.records)

\* spawn(name, alias, opts) by a caller that may run other commands while
\* onCreate is pending: up to the call of onCreate when the app has the hook
\* (the pid is taken, the app and its state machine exist, nothing is
\* registered yet), the whole spawn otherwise.
\* (SpawnWaits: the spawn calls onCreate; SpawnAwaiting: what it holds while
\* it waits; SpawnAwaitDoes: what it has done by then.)
SpawnWaits(name, aliasArg) ==
  /\ Has(registry, name)
  /\ registry[name].AppClass # Null
  /\ ~Has(registry[name].instances, SpawnAlias(aliasArg, NextPid))
  /\ "onCreate" \in HooksOfClass(registry[name].AppClass)
SpawnAwaiting(name, aliasArg) ==
  [cmd |-> "spawn", name |-> name, alias |-> SpawnAlias(aliasArg, NextPid),
   ref |-> NewRef, prev |-> NullState,
   entry |-> TransitionsGet(TransitionKey(NullState, "CREATE")), options |-> NoOptions]
SpawnAwaitDoes(name, aliasArg) ==
  LET pid == NextPid
      sm == NewInstance(registry[name].AppClass, name, SpawnAlias(aliasArg, pid), pid, now)
  IN /\ pidSeq' = pid
     /\ objs' = MapSet(objs, NewRef, sm)
     /\ result' = Outcome("await", "none", NoRet, HooksOf(sm, "CREATE", NoOptions),
                          TRUE, << >>)
     /\ UNCHANGED << stores, now >>
SpawnCall(name, aliasArg, t) ==
  IF SpawnWaits(name, aliasArg)
    THEN /\ pidSeq < PidBase + MaxSpawns
         /\ pending' = Append(pending, SpawnAwaiting(name, aliasArg))
         /\ SpawnAwaitDoes(name, aliasArg)
  ELSE Spawn(name, aliasArg, "ok", t)

\* activate and suspend by such a caller: up to the hook when the transition
\* calls one, the whole command otherwise.
ActivateCall(name, alias, mode, t) ==
  IF Waits(name, alias, ActivateEvent(mode), NoOptions)
    THEN Await("activate", name, alias, ActivateEvent(mode), NoOptions)
  ELSE Activate(name, alias, mode, "ok", t)
SuspendCall(name, alias, t) ==
  IF Waits(name, alias, "SUSPEND", NoOptions)
    THEN Await("suspend", name, alias, "SUSPEND", NoOptions)
  ELSE Suspend(name, alias, "ok", t)

\* stop by such a caller: up to onTerminate when the first STOP calls it; the
\* whole stop otherwise.
StopCall(name, alias, force, t) ==
  LET ref == Instance(name, alias)
      terminating == Transition(objs[ref], "STOP", Options(force, ""), "ok", t)
  IN IF Waits(name, alias, "STOP", Options(force, ""))
       THEN Await("stop", name, alias, "STOP", Options(force, ""))
     ELSE IF ref = NoRef THEN Stop(name, alias, force, "ok", t)
     ELSE /\ UNCHANGED << pidSeq, pending >>
          /\ Clock(terminating.records # << >>, t)
          /\ IF terminating.err # "none"
               THEN /\ objs' = [objs EXCEPT ![ref] = terminating.sm]
                    /\ UNCHANGED stores
                    /\ result' = Outcome("stop", terminating.err, NoRet, << >>, FALSE,
                                         terminating.records)
             ELSE StopRest(name, alias, ref, terminating.sm, << >>,
                           terminating.records, 0, t)

\* The hook of the i-th waiting command returns or throws (hb), and the
\* command runs to its end: #apply commits the entry's state over the state
\* it kept as prev, or CRASHED; then spawn registers the instance, stop drives
\* its second STOP and removes what is under its name and alias, and the
\* others return.
\* (Settled: what that does to everything but the commands that wait.)
Settled(task, i, hb, t) ==
  LET ref == task.ref
      done == Apply([objs[ref] EXCEPT !.state = task.prev], task.entry, task.options,
                    hb, t)
  IN /\ pidSeq' = pidSeq
     /\ Clock(TRUE, t)
     /\ IF task.cmd = "spawn"
          THEN IF done.err # "none"
                 THEN /\ objs' = MapDelete(objs, ref)
                      /\ UNCHANGED stores
                      /\ result' = Outcome("spawn", done.err, NoRet, << >>, FALSE,
                                           done.records)
               ELSE /\ objs' = [objs EXCEPT ![ref] = done.sm]
                    /\ Commit(InsertInstance(task.name, task.alias, ref, objs[ref].pid))
                    /\ result' = Outcome("spawn", "none",
                                         [alias |-> task.alias, pid |-> objs[ref].pid],
                                         << >>, FALSE, done.records)
        ELSE IF task.cmd = "stop" /\ done.err = "none"
          THEN StopRest(task.name, task.alias, ref, done.sm, << >>, done.records, i, t)
        ELSE /\ objs' = [objs EXCEPT ![ref] = done.sm]
             /\ UNCHANGED stores
             /\ result' = Outcome(task.cmd, done.err, NoRet, << >>, FALSE, done.records)
Settle(i, hb, t) ==
  /\ pending' = Without(pending, i)
  /\ Settled(pending[i], i, hb, t)

\* Two callers, each with a sequence of commands on an instance of its own:
\* the instances have the same app and different aliases. A caller calls its
\* next command when the one before has returned or thrown; a command is the
\* operation and what the hook does if the command calls one.
CallerTargets == << [name |-> "worker", alias |-> "a"],
                    [name |-> "worker", alias |-> "1002"] >>
ScriptOps == {"spawn", "activate", "suspend", "stop"}
ScriptCommands == [op : ScriptOps, hb : HookBehaviours]
Scripts ==
  UNION {[1..n -> ScriptCommands] : n \in 1..MaxScript}

\* A caller between two commands, and a caller as the commands that wait keep
\* it: what its command holds (nothing between two commands), its sequence
\* and the position of the command it is at.
IdleTask(x) ==
  [cmd |-> "idle", name |-> x.name, alias |-> x.alias, ref |-> NoRef,
   prev |-> NullState, entry |-> NoEntry, options |-> NoOptions]
Caller(task, script, pos) ==
  [cmd |-> task.cmd, name |-> task.name, alias |-> task.alias, ref |-> task.ref,
   prev |-> task.prev, entry |-> task.entry, options |-> task.options,
   script |-> script, pos |-> pos]

\* The i-th caller calls its next command: the command runs up to the hook
\* it waits for, or to its end when it calls none.
CallerCalls(i) ==
  LET c == pending[i]
      op == c.script[c.pos].op
      event == IF op = "activate" THEN ActivateEvent("foreground")
               ELSE IF op = "suspend" THEN "SUSPEND" ELSE "STOP"
      waits == IF op = "spawn" THEN SpawnWaits(c.name, c.alias)
               ELSE IF op = "suspend" /\ Instance(c.name, c.alias) # NoRef
                                      /\ SuspendSkipped(objs[Instance(c.name, c.alias)].state)
                 THEN FALSE
               ELSE Waits(c.name, c.alias, event, NoOptions)
      returned == [pending EXCEPT ![i] = Caller(IdleTask(c), c.script, c.pos + 1)]
  IN /\ c.cmd = "idle"
     /\ c.pos <= Len(c.script)
     /\ IF waits /\ op = "spawn"
          THEN /\ pending' = [pending EXCEPT ![i] =
                                Caller(SpawnAwaiting(c.name, c.alias), c.script, c.pos)]
               /\ SpawnAwaitDoes(c.name, c.alias)
        ELSE IF waits
          THEN /\ pending' = [pending EXCEPT ![i] =
                                Caller(Awaiting(op, c.name, c.alias, event, NoOptions),
                                       c.script, c.pos)]
               /\ AwaitDoes(op, c.name, c.alias, event, NoOptions)
        ELSE /\ pending' = returned
             /\ IF op = "spawn" THEN SpawnDoes(c.name, c.alias, "ok", now)
                ELSE IF op = "activate"
                  THEN DriveDoes("activate", c.name, c.alias, event, NoOptions, "ok", now)
                ELSE IF op = "suspend" THEN SuspendDoes(c.name, c.alias, "ok", now)
                ELSE StopDoes(c.name, c.alias, FALSE, "ok", now)

\* The hook the i-th caller's command waits for does what the command of the
\* sequence says, and the command runs to its end.
CallerSettles(i) ==
  LET c == pending[i]
  IN /\ c.cmd # "idle"
     /\ pending' = [pending EXCEPT ![i] = Caller(IdleTask(c), c.script, c.pos + 1)]
     /\ Settled(c, i, c.script[c.pos].hb, now)

\* register(name, AppClass, meta) with the meta it keeps: autostart when it
\* is a boolean, autostartMode when it is one of the two modes. An entry
\* carries both (Undefined when never set).
MetaAutostart == {"true", "false", Undefined}
MetaModes == {"foreground", Undefined}
NewEntry ==
  [AppClass |-> Null, instances |-> EmptyMap, autostart |-> Undefined,
   autostartMode |-> Undefined]
RegisterWith(name, AppClass, autostart, autostartMode) ==
  LET entry == IF Has(registry, name) THEN registry[name] ELSE NewEntry
  IN /\ registry' = MapSet(registry, name,
                           [entry EXCEPT
                              !.AppClass = AppClass,
                              !.autostart = IF autostart \in {"true", "false"}
                                              THEN autostart ELSE @,
                              !.autostartMode = IF autostartMode \in Modes
                                                  THEN autostartMode ELSE @])
     /\ result' = Returned("register", NoRet)
     /\ UNCHANGED << objs, pidSeq, processIndex, instanceIndex, globalAliasIndex,
                     now, pending >>

\* An app definition of the manifest: its autostart flag, its autostartMode,
\* and whether requiring its route gives the class or throws. A manifest has
\* a definition for some of the names.
ManifestDefs ==
  [autostart : BOOLEAN, autostartMode : {"background", Undefined},
   route : {"loads", "fails"}]
Manifests == UNION {[names -> ManifestDefs] : names \in SUBSET Names}

\* The orders in which a Map with the keys names iterates.
Orders(names) ==
  {order \in [1..Cardinality(names) -> names] :
     \A i, j \in DOMAIN order : order[i] = order[j] => i = j}

\* setup(): #loadManifest merges the manifest's definitions into the
\* registry, #loadClassesFromRoutes requires the class of every entry that
\* has a route and no class, and #autostartIfAny is called and not awaited:
\* the driver is left with the registry's entries before it, in the order
\* the Map iterates.
Setup(manifest, order) ==
  LET entry(name) == IF Has(registry, name) THEN registry[name] ELSE NewEntry
      loaded(name) ==
        [entry(name) EXCEPT
           !.autostart = IF manifest[name].autostart THEN "true" ELSE "false",
           !.autostartMode = IF manifest[name].autostartMode \in Modes
                               THEN manifest[name].autostartMode ELSE @,
           !.AppClass = IF @ # Null THEN @
                        ELSE IF manifest[name].route = "loads" THEN AppClassOf(name)
                        ELSE Null]
  IN /\ registry' = [name \in DOMAIN registry \cup DOMAIN manifest |->
                       IF name \in DOMAIN manifest THEN loaded(name)
                       ELSE registry[name]]
     /\ order \in Orders(DOMAIN registry \cup DOMAIN manifest)
     /\ pending' = << [cmd |-> "autostart", todo |-> order, alias |-> NoAlias,
                       failed |-> {}] >>
     /\ result' = Returned("setup", NoRet)
     /\ UNCHANGED << objs, pidSeq, processIndex, instanceIndex, globalAliasIndex,
                     now >>

\* #autostartIfAny at the entry it has come to: the entry is one it starts.
Autostarts(name) ==
  registry[name].autostart = "true" /\ registry[name].AppClass # Null
\* appRegistryEntry.autostartMode || 'background'
\* (AutostartModeForeground is the faulty default.)
AutostartModeForeground(name) ==
  IF registry[name].autostartMode = Undefined THEN "foreground"
  ELSE registry[name].autostartMode
AutostartMode(name) ==
  IF registry[name].autostartMode = Undefined THEN "background"
  ELSE registry[name].autostartMode

\* #autostartIfAny passes an entry that is not flagged or has no class.
AutostartSkip ==
  /\ pending # << >>
  /\ pending[1].todo # << >>
  /\ ~Autostarts(Head(pending[1].todo))
  /\ pending' = << [pending[1] EXCEPT !.todo = Tail(@)] >>
  /\ UNCHANGED << stores, objs, pidSeq, now, result >>

\* #autostartIfAny awaits spawn(name): it goes on to activate the alias the
\* spawn returns, or catches what the spawn throws, logs it and goes to the
\* next entry.
AutostartSpawn(hb, t) ==
  /\ pending # << >>
  /\ pending[1].todo # << >>
  /\ pending[1].alias = NoAlias
  /\ Autostarts(Head(pending[1].todo))
  /\ SpawnDoes(Head(pending[1].todo), NoAlias, hb, t)
  /\ pending' = IF result'.err = "none"
                  THEN << [pending[1] EXCEPT !.alias = result'.ret.alias] >>
                ELSE << [pending[1] EXCEPT !.todo = Tail(@),
                                           !.failed = @ \cup {Head(pending[1].todo)}] >>

\* #autostartIfAny awaits activate(name, alias, { mode, reason }), catches
\* and logs what it throws, and goes to the next entry.
AutostartActivate(hb, t) ==
  /\ pending # << >>
  /\ pending[1].todo # << >>
  /\ pending[1].alias # NoAlias
  /\ DriveDoes("activate", Head(pending[1].todo), pending[1].alias,
               ActivateEvent(AutostartMode(Head(pending[1].todo))), NoOptions, hb, t)
  /\ pending' = << [pending[1] EXCEPT
                      !.todo = Tail(@), !.alias = NoAlias,
                      !.failed = IF result'.err = "none" THEN @
                                 ELSE @ \cup {Head(pending[1].todo)}] >>

\* #autostartIfAny is through the entries and returns; the names it logged a
\* failure for are left for the observers.
AutostartEnds ==
  /\ pending # << >>
  /\ pending[1].todo = << >>
  /\ pending' = << >>
  /\ result' = Returned("autostart", pending[1].failed)
  /\ UNCHANGED << stores, objs, pidSeq, now >>

\* What #renameAlias leaves when it throws: the error, nothing changed.
\* (RenameThrewHalfway is the faulty throw after the global alias index has
\* been cleared.)
RenameThrewHalfway(err) ==
  [err |-> err, ret |-> NoRet,
   stores |-> [Stores EXCEPT !.globalAliasIndex = EmptyMap]]
RenameThrew(err) == [err |-> err, ret |-> NoRet, stores |-> Stores]

\* What #renameAlias returns when the new alias is the old one.
\* (RenameNoopChurning is the faulty no-op that drops the alias from the
\* global alias index.)
RenameNoopChurning(name, alias) ==
  [err |-> "none",
   ret |-> [name |-> name, oldAlias |-> alias, newAlias |-> alias,
            pid |-> PidOrNull(name, alias), noop |-> TRUE],
   stores |-> [Stores EXCEPT !.globalAliasIndex = MapDelete(@, alias)]]
RenameNoop(name, alias) ==
  [err |-> "none",
   ret |-> [name |-> name, oldAlias |-> alias, newAlias |-> alias,
            pid |-> PidOrNull(name, alias), noop |-> TRUE],
   stores |-> Stores]

\* #renameAlias(name, oldAlias, newAlias): what it throws or returns, and the
\* registry and indices it leaves.
RenameAlias(name, oldAlias, newAlias) ==
  LET pid == PidOrNull(name, oldAlias)
      instances == registry[name].instances
  IN IF newAlias \in {"", NoAlias, NumberAlias} THEN RenameThrew("InvalidAlias")
     ELSE IF newAlias = oldAlias THEN RenameNoop(name, oldAlias)
     ELSE IF ~Has(registry, name) THEN RenameThrew("AppNotRegistered")
     ELSE IF ~Has(instances, oldAlias) THEN RenameThrew("InstanceNotRunning")
     ELSE IF Has(instances, newAlias) THEN RenameThrew("AliasCollision")
     ELSE IF Has(globalAliasIndex, newAlias) THEN RenameThrew("AliasCollision")
     ELSE IF pid = NoPid THEN RenameThrew("PidNotFound")
     ELSE [err |-> "none",
           ret |-> [name |-> name, oldAlias |-> oldAlias, newAlias |-> newAlias,
                    pid |-> pid, noop |-> FALSE],
           stores |->
             [registry |-> [registry EXCEPT ![name].instances =
                              MapSet(MapDelete(@, oldAlias), newAlias, instances[oldAlias])],
              instanceIndex |-> MapSet(MapDelete(instanceIndex, InstanceKey(name, oldAlias)),
                                       InstanceKey(name, newAlias), pid),
              processIndex |-> IF Has(processIndex, pid)
                                 THEN MapSet(processIndex, pid,
                                             [name |-> name, alias |-> newAlias])
                               ELSE processIndex,
              globalAliasIndex |-> MapSet(MapDelete(globalAliasIndex, oldAlias), newAlias,
                                          [name |-> name, alias |-> newAlias])]]

\* The API object of the instance ref, named by the pid of its instance:
\* instance.app.api, or what it returns when it is a function.
ApiObject(ref) == << "api of", objs[ref].pid >>

\* #resolveByAlias(alias): the apps that have an instance under the alias.
ResolveByAlias(alias) ==
  {name \in DOMAIN registry : Has(registry[name].instances, alias)}

\* #resolveByAliasSingle(alias) as getByAlias uses it: the single match, or the
\* error thrown when the matches are not exactly one.
\* (GetByAliasIndexed is the faulty lookup through the global alias index,
\* which keeps one owner per alias.)
GetByAliasIndexed(alias) ==
  IF ~Has(globalAliasIndex, alias)
       \/ Instance(globalAliasIndex[alias].name, alias) = NoRef
    THEN [err |-> "AmbiguousAlias", name |-> Null, alias |-> Null, ref |-> NoRef]
  ELSE [err |-> "none", name |-> globalAliasIndex[alias].name, alias |-> alias,
        ref |-> Instance(globalAliasIndex[alias].name, alias)]
GetByAlias(alias) ==
  IF Cardinality(ResolveByAlias(alias)) # 1
    THEN [err |-> "AmbiguousAlias", name |-> Null, alias |-> Null, ref |-> NoRef]
  ELSE LET name == CHOOSE n \in ResolveByAlias(alias) : TRUE
       IN [err |-> "none", name |-> name, alias |-> alias,
           ref |-> registry[name].instances[alias]]

\* getByNameAndAlias(name, alias), through #instance
GetByNameAndAlias(name, alias) ==
  IF Instance(name, alias) = NoRef
    THEN [err |-> "InstanceNotRunning", name |-> Null, alias |-> Null, ref |-> NoRef]
  ELSE [err |-> "none", name |-> name, alias |-> alias, ref |-> Instance(name, alias)]

\* getByPid(pid), through #resolveByPid
GetByPid(pid) ==
  IF ~Has(processIndex, pid)
    THEN [err |-> "PidNotFound", name |-> Null, alias |-> Null, ref |-> NoRef]
  ELSE IF Instance(processIndex[pid].name, processIndex[pid].alias) = NoRef
    THEN [err |-> "InstanceNotFound", name |-> Null, alias |-> Null, ref |-> NoRef]
  ELSE [err |-> "none", name |-> processIndex[pid].name, alias |-> processIndex[pid].alias,
        ref |-> Instance(processIndex[pid].name, processIndex[pid].alias)]

\* #makeApiHandle(name, alias, instance): the handle a getter returns, which is
\* the instance's API object with a setAlias bound to (name, alias).
MakeApiHandle(got) == [name |-> got.name, alias |-> got.alias, api |-> ApiObject(got.ref)]

\* A getter called for the handle alone: the handle, or the error.
Handle(getter, got) ==
  /\ UNCHANGED << stores, objs, pidSeq, now, pending >>
  /\ IF got.err # "none" THEN result' = Threw(getter, got.err)
     ELSE result' = Returned(getter, MakeApiHandle(got))

\* getByAlias(alias)
HandleByAlias(alias) == Handle("getByAlias", GetByAlias(alias))

\* got.setAlias(newAlias) chained on the handle a getter has just returned:
\* #makeApiHandle captured (name, alias), setAlias renames that pair.
SetAlias(getter, got, newAlias) ==
  /\ UNCHANGED << objs, pidSeq, now, pending >>
  /\ IF got.err # "none"
       THEN /\ result' = Threw(getter, got.err)
            /\ UNCHANGED stores
     ELSE LET renamed == RenameAlias(got.name, got.alias, newAlias)
          IN /\ Commit(renamed.stores)
             /\ result' = Outcome("setAlias", renamed.err, renamed.ret, << >>, FALSE,
                                  << >>)

\* A caller keeps the handle a getter returns: the proxy of #makeApiHandle
\* with the name and alias its setAlias closes over (pid is the pid of the
\* instance the getter resolved, which the proxy does not hold).
HandleKept(getter, got) ==
  /\ got.err = "none"
  /\ pending' = Append(pending, [cmd |-> "handle", name |-> got.name,
                                 alias |-> got.alias, pid |-> objs[got.ref].pid])
  /\ result' = Returned(getter, MakeApiHandle(got))
  /\ UNCHANGED << stores, objs, pidSeq, now >>

\* setAlias(newAlias) on the i-th handle kept: #renameAlias with the name and
\* alias the handle was made with.
KeptSetAlias(i, newAlias) ==
  LET renamed == RenameAlias(pending[i].name, pending[i].alias, newAlias)
  IN /\ Commit(renamed.stores)
     /\ result' = Outcome("setAlias", renamed.err, renamed.ret, << >>, FALSE, << >>)
     /\ UNCHANGED << objs, pidSeq, now, pending >>

\* getByAlias(alias).setAlias(newAlias)
SetAliasByAlias(alias, newAlias) ==
  SetAlias("getByAlias", GetByAlias(alias), newAlias)

\* getByNameAndAlias(name, alias).setAlias(newAlias)
SetAliasByNameAndAlias(name, alias, newAlias) ==
  SetAlias("getByNameAndAlias", GetByNameAndAlias(name, alias), newAlias)

\* getByPid(pid).setAlias(newAlias)
SetAliasByPid(pid, newAlias) ==
  SetAlias("getByPid", GetByPid(pid), newAlias)

\* api(name, alias) up to the instance it resolves, or the error it throws. An
\* alias that is falsy (omitted, or the empty string) stands for the only
\* instance of the app, and is an error when the app has several.
\* (ApiInstanceAny is the faulty api that takes any instance of the app when
\* the alias is omitted and the app has several.)
ApiInstanceAny(name, aliasArg) ==
  LET aliases == DOMAIN registry[name].instances
      falsy == aliasArg \in {NoAlias, ""}
      targetAlias == IF falsy THEN CHOOSE a \in aliases : TRUE ELSE aliasArg
  IN IF ~Has(registry, name) THEN [err |-> "AppNotRegistered", ref |-> NoRef]
     ELSE IF aliases = {} THEN [err |-> "NoInstances", ref |-> NoRef]
     ELSE IF ~Has(registry[name].instances, targetAlias)
       THEN [err |-> "InstanceNotRunning", ref |-> NoRef]
     ELSE [err |-> "none", ref |-> registry[name].instances[targetAlias]]
ApiInstance(name, aliasArg) ==
  LET aliases == DOMAIN registry[name].instances
      falsy == aliasArg \in {NoAlias, ""}
      targetAlias == IF falsy /\ Cardinality(aliases) = 1
                       THEN CHOOSE a \in aliases : TRUE ELSE aliasArg
  IN IF ~Has(registry, name) THEN [err |-> "AppNotRegistered", ref |-> NoRef]
     ELSE IF aliases = {} THEN [err |-> "NoInstances", ref |-> NoRef]
     ELSE IF falsy /\ Cardinality(aliases) # 1
       THEN [err |-> "AmbiguousInstance", ref |-> NoRef]
     ELSE IF ~Has(registry[name].instances, targetAlias)
       THEN [err |-> "InstanceNotRunning", ref |-> NoRef]
     ELSE [err |-> "none", ref |-> registry[name].instances[targetAlias]]

\* api(name, alias): the API object of the instance it resolves, or the error.
Api(name, aliasArg) ==
  /\ UNCHANGED << stores, objs, pidSeq, now, pending >>
  /\ LET got == ApiInstance(name, aliasArg)
     IN IF got.err # "none" THEN result' = Threw("api", got.err)
        ELSE result' = Returned("api", ApiObject(got.ref))

\* One entry of the results of broadcast.
BroadcastOk(alias, pid, value) ==
  [alias |-> alias, pid |-> pid, ok |-> TRUE, value |-> value, error |-> "none"]
BroadcastFailed(alias, pid, error) ==
  [alias |-> alias, pid |-> pid, ok |-> FALSE, value |-> NoRet, error |-> error]

\* broadcast: the entry for the instance ref under alias; beh[r] is what the
\* API object of instance r does with the method, and a method that returns
\* returns a value that names its instance.
BroadcastEntry(name, alias, ref, beh) ==
  LET got == ApiInstance(name, alias)
  IN IF got.err # "none" THEN BroadcastFailed(alias, objs[ref].pid, got.err)
     ELSE IF beh[got.ref] = "lacks"
       THEN BroadcastFailed(alias, objs[ref].pid, "MethodNotFound")
     ELSE IF beh[got.ref] = "throws"
       THEN BroadcastFailed(alias, objs[ref].pid, "MethodThrew")
     ELSE BroadcastOk(alias, objs[ref].pid, << "value of", objs[got.ref].pid >>)

\* broadcast(name, method, ...args): the results, one per entry of the app's
\* alias map (taken as a set: the order of the entries is not modelled).
Broadcast(name, beh) ==
  /\ UNCHANGED << stores, objs, pidSeq, now, pending >>
  /\ IF ~Has(registry, name)
       THEN result' = Threw("broadcast", "AppNotRegistered")
     ELSE result' = Returned("broadcast",
                      {BroadcastEntry(name, alias, registry[name].instances[alias], beh) :
                         alias \in DOMAIN registry[name].instances})

\* The snapshot status and statusByPid build.
Snapshot(name, alias, ref) ==
  [name |-> name, alias |-> alias, pid |-> objs[ref].pid, state |-> objs[ref].state,
   lastTransitionAt |-> objs[ref].lastTransitionAt]

\* status(name, alias): what it returns or throws; it changes nothing.
StatusOf(name, alias) ==
  IF Instance(name, alias) = NoRef
    THEN [err |-> "InstanceNotRunning", ret |-> NoRet]
  ELSE [err |-> "none", ret |-> Snapshot(name, alias, Instance(name, alias))]

\* status(name, alias)
Status(name, alias) ==
  /\ UNCHANGED << stores, objs, pidSeq, now, pending >>
  /\ result' = Outcome("status", StatusOf(name, alias).err, StatusOf(name, alias).ret,
                       << >>, FALSE, << >>)

\* #resolveByPid(pid): the name and alias the pid index has for the pid and
\* the instance the alias map has under them, or the error it throws.
ResolveByPid(pid) ==
  IF ~Has(processIndex, pid)
    THEN [err |-> "PidNotFound", name |-> Null, alias |-> NoAlias, ref |-> NoRef]
  ELSE IF Instance(processIndex[pid].name, processIndex[pid].alias) = NoRef
    THEN [err |-> "InstanceNotFound", name |-> Null, alias |-> NoAlias, ref |-> NoRef]
  ELSE [err |-> "none", name |-> processIndex[pid].name,
        alias |-> processIndex[pid].alias,
        ref |-> Instance(processIndex[pid].name, processIndex[pid].alias)]

\* statusByPid(pid): what it returns or throws; the snapshot has the name and
\* alias of the pid index, the pid it was given and the instance's state.
StatusByPidOf(pid) ==
  LET got == ResolveByPid(pid)
  IN IF got.err # "none" THEN [err |-> got.err, ret |-> NoRet]
     ELSE [err |-> "none",
           ret |-> [name |-> got.name, alias |-> got.alias, pid |-> pid,
                    state |-> objs[got.ref].state,
                    lastTransitionAt |-> objs[got.ref].lastTransitionAt]]
StatusByPid(pid) ==
  /\ UNCHANGED << stores, objs, pidSeq, now, pending >>
  /\ result' = Outcome("statusByPid", StatusByPidOf(pid).err, StatusByPidOf(pid).ret,
                       << >>, FALSE, << >>)

\* What the method of the API object of instance ref does when called: beh[r]
\* is what the API object of instance r does with the method.
Invoke(ref, beh) ==
  IF beh[ref] = "lacks" THEN [err |-> "MethodNotFound", ret |-> NoRet]
  ELSE IF beh[ref] = "throws" THEN [err |-> "MethodThrew", ret |-> NoRet]
  ELSE [err |-> "none", ret |-> << "value of", objs[ref].pid >>]

\* call(name, alias, method, ...args) and callByPid(pid, method, ...args):
\* what they return or throw; they change nothing.
CallOf(name, aliasArg, beh) ==
  LET got == ApiInstance(name, aliasArg)
  IN IF got.err # "none" THEN [err |-> got.err, ret |-> NoRet]
     ELSE Invoke(got.ref, beh)
CallByPidOf(pid, beh) ==
  LET got == ResolveByPid(pid)
  IN IF got.err # "none" THEN [err |-> got.err, ret |-> NoRet]
     ELSE Invoke(got.ref, beh)
Call(name, aliasArg, beh) ==
  /\ UNCHANGED << stores, objs, pidSeq, now, pending >>
  /\ result' = Outcome("call", CallOf(name, aliasArg, beh).err,
                       CallOf(name, aliasArg, beh).ret, << >>, FALSE, << >>)
CallByPid(pid, beh) ==
  /\ UNCHANGED << stores, objs, pidSeq, now, pending >>
  /\ result' = Outcome("callByPid", CallByPidOf(pid, beh).err,
                       CallByPidOf(pid, beh).ret, << >>, FALSE, << >>)

\* stopByPid(pid, opts): stop(name, alias, opts) with the name and alias of
\* the pid index.
StopByPid(pid, force, hb, t) ==
  LET got == ResolveByPid(pid)
  IN IF got.err # "none"
       THEN /\ Clock(FALSE, t)
            /\ Behaves(<< >>, hb)
            /\ result' = Threw("stop", got.err)
            /\ UNCHANGED << stores, objs, pidSeq, pending >>
     ELSE Stop(got.name, got.alias, force, hb, t)

\* list(): per app, its instances with alias, pid, state and time; it changes
\* nothing.
ListOf ==
  {[name |-> name,
    instances |-> {[alias |-> alias,
                    pid |-> objs[registry[name].instances[alias]].pid,
                    state |-> objs[registry[name].instances[alias]].state,
                    lastTransitionAt |->
                      objs[registry[name].instances[alias]].lastTransitionAt] :
                   alias \in DOMAIN registry[name].instances}] :
   name \in DOMAIN registry}

\* The (name, alias) pairs that have a live instance, and the instance's pid
\* and state as status reports them.
Live ==
  UNION {{<< name, alias >> : alias \in DOMAIN registry[name].instances} :
           name \in DOMAIN registry}
PidOf(name, alias) == objs[Instance(name, alias)].pid
StateOf(name, alias) == objs[Instance(name, alias)].state

\* The aliases some instance has. A command addressed to any other alias finds
\* no instance whichever alias that is, so callers use GhostAlias for them all.
LiveAliases == UNION {DOMAIN registry[name].instances : name \in DOMAIN registry}
Addressable == (AliasArgs \cap LiveAliases) \cup {GhostAlias}
\* Likewise a new alias that no instance has is a free one whichever it is:
\* callers pass the user aliases, the empty string, or an alias in use.
Assignable == (AliasArgs \cap LiveAliases) \cup UserAliases \cup {""}

\* The lifecycle commands, one complete command at a time. The callers spawn a
\* new instance only while fewer than MaxLive exist; they may always repeat
\* the spawn of an instance that exists.
Next ==
  \/ \E name \in Names : Register(name, AppClassOf(name))
  \/ \E name \in Names, alias \in SpawnArgs,
        hb \in HookBehaviours, t \in 0..MaxTime :
        /\ Cardinality(DOMAIN objs) < MaxLive \/ Instance(name, alias) # NoRef
        /\ Spawn(name, alias, hb, t)
  \/ \E name \in Names, alias \in Addressable, mode \in Modes,
        hb \in HookBehaviours, t \in 0..MaxTime : Activate(name, alias, mode, hb, t)
  \/ \E name \in Names, alias \in Addressable,
        hb \in HookBehaviours, t \in 0..MaxTime : Deactivate(name, alias, hb, t)
  \/ \E name \in Names, alias \in Addressable,
        hb \in HookBehaviours, t \in 0..MaxTime : Suspend(name, alias, hb, t)
  \/ \E name \in Names, alias \in Addressable,
        hb \in HookBehaviours, t \in 0..MaxTime : Resume(name, alias, hb, t)
  \/ \E name \in Names, alias \in Addressable, sig \in Signals,
        hb \in HookBehaviours, t \in 0..MaxTime : Signal(name, alias, sig, hb, t)
  \/ \E name \in Names, alias \in Addressable, force \in BOOLEAN,
        hb \in HookBehaviours, t \in 0..MaxTime : Stop(name, alias, force, hb, t)

Spec == Init /\ [][Next]_vars

\* The commands that maintain the registry and the three indices, one complete
\* command at a time, with activate in the foreground as the one command that
\* moves an instance to another state. None of them depends on the time read,
\* so the clock stands still here.
NextAlias ==
  \/ \E name \in Names : Register(name, AppClassOf(name))
  \/ \E name \in Names, alias \in SpawnArgs \cup {""},
        hb \in HookBehaviours, t \in {now} : Spawn(name, alias, hb, t)
  \/ \E name \in Names, alias \in Addressable, mode \in {"foreground"},
        hb \in HookBehaviours, t \in {now} : Activate(name, alias, mode, hb, t)
  \/ \E name \in Names, alias \in Addressable, force \in BOOLEAN,
        hb \in HookBehaviours, t \in {now} : Stop(name, alias, force, hb, t)
  \/ \E alias \in Addressable, newAlias \in Assignable :
        SetAliasByAlias(alias, newAlias)
  \/ \E name \in Names, alias \in Addressable, newAlias \in Assignable :
        SetAliasByNameAndAlias(name, alias, newAlias)
  \/ \E pid \in Pids, newAlias \in Assignable : SetAliasByPid(pid, newAlias)

SpecAlias == Init /\ [][NextAlias]_vars

\* The lifecycle commands with stop in its two parts: the other commands, and
\* the first part of another stop, may run while a stop waits between its two
\* awaits.
NextSteps ==
  \/ \E name \in Names : Register(name, AppClassOf(name))
  \/ \E name \in Names, alias \in SpawnArgs,
        hb \in HookBehaviours, t \in 0..MaxTime :
        /\ Cardinality(DOMAIN objs) < MaxLive \/ Instance(name, alias) # NoRef
        /\ Spawn(name, alias, hb, t)
  \/ \E name \in Names, alias \in Addressable, mode \in Modes,
        hb \in HookBehaviours, t \in 0..MaxTime : Activate(name, alias, mode, hb, t)
  \/ \E name \in Names, alias \in Addressable,
        hb \in HookBehaviours, t \in 0..MaxTime : Deactivate(name, alias, hb, t)
  \/ \E name \in Names, alias \in Addressable,
        hb \in HookBehaviours, t \in 0..MaxTime : Suspend(name, alias, hb, t)
  \/ \E name \in Names, alias \in Addressable,
        hb \in HookBehaviours, t \in 0..MaxTime : Resume(name, alias, hb, t)
  \/ \E name \in Names, alias \in Addressable, sig \in Signals,
        hb \in HookBehaviours, t \in 0..MaxTime : Signal(name, alias, sig, hb, t)
  \/ \E name \in Names, alias \in Addressable, force \in BOOLEAN,
        hb \in HookBehaviours, t \in 0..MaxTime :
        /\ Len(pending) < MaxPending \/ Instance(name, alias) = NoRef
        /\ StopBegin(name, alias, force, hb, t)
  \/ \E i \in DOMAIN pending, hb \in HookBehaviours, t \in 0..MaxTime :
        StopFinish(i, hb, t)

SpecSteps == Init /\ [][NextSteps]_vars

\* new ApplicationStateMachine({ app, name, alias, state: null }) by a caller of
\* the state machine itself: the machine is in no registry and has no pid.
MachineNew(cls, name, alias, t) ==
  /\ Clock(TRUE, t)
  /\ objs' = MapSet(objs, NewRef, NewInstance(cls, name, alias, NoPid, t))
  /\ result' = Outcome("new", "none", NoRet, << >>, TRUE, << >>)
  /\ UNCHANGED << stores, pidSeq, pending >>

\* The public helpers create, activateForeground, activateBackground,
\* deactivate, suspend, resume, stop, signal and fail of a state machine: each
\* is transition(event, options), and returns the state it leaves.
MachineEvent(ref, event, options, hb, t) ==
  LET done == Transition(objs[ref], event, options, hb, t)
  IN /\ Clock(done.records # << >>, t)
     /\ Behaves(done.hooks, hb)
     /\ objs' = [objs EXCEPT ![ref] = done.sm]
     /\ result' = Outcome("transition", done.err,
                          IF done.err = "none" THEN done.sm.state ELSE NoRet,
                          done.hooks, FALSE, done.records)
     /\ UNCHANGED << stores, pidSeq, pending >>

\* The options a caller of the helpers passes with an event: force matters to
\* STOP and sig to SIGNAL only.
EventOptions(event) ==
  {Options(force, sig) :
     force \in (IF event = "STOP" THEN BOOLEAN ELSE {FALSE}),
     sig \in (IF event = "SIGNAL" THEN Signals ELSE {""})}

\* A state machine on its own, driven through its public helpers.
NextMachine ==
  \/ \E cls \in AppClasses, t \in 0..MaxTime :
        /\ Cardinality(DOMAIN objs) < MaxLive
        /\ MachineNew(cls, "worker", "a", t)
  \/ \E ref \in DOMAIN objs, event \in ApplicationEvents,
        hb \in HookBehaviours, t \in 0..MaxTime :
        \E options \in EventOptions(event) : MachineEvent(ref, event, options, hb, t)

SpecMachine == Init /\ [][NextMachine]_vars

\* The commands that create and remove instances, broadcast and api; the clock
\* stands still, as none of them depends on the time read.
NextApi ==
  \/ \E name \in Names : Register(name, AppClassOf(name))
  \/ \E name \in Names, alias \in SpawnArgs \cup {""},
        hb \in HookBehaviours, t \in {now} : Spawn(name, alias, hb, t)
  \/ \E name \in Names, alias \in Addressable, force \in BOOLEAN,
        hb \in HookBehaviours, t \in {now} : Stop(name, alias, force, hb, t)
  \/ \E name \in Names, beh \in [DOMAIN objs -> ApiBehaviours] : Broadcast(name, beh)
  \/ \E name \in Names, alias \in Addressable \cup {NoAlias} : Api(name, alias)

SpecApi == Init /\ [][NextApi]_vars

\* The commands that create, rename and remove instances, and the lookups by
\* alias; the clock stands still, as none of them depends on the time read.
NextLookup ==
  \/ \E name \in Names : Register(name, AppClassOf(name))
  \/ \E name \in Names, alias \in SpawnArgs \cup {""},
        hb \in HookBehaviours, t \in {now} : Spawn(name, alias, hb, t)
  \/ \E name \in Names, alias \in Addressable, force \in BOOLEAN,
        hb \in HookBehaviours, t \in {now} : Stop(name, alias, force, hb, t)
  \/ \E name \in Names, alias \in Addressable, newAlias \in Assignable :
        SetAliasByNameAndAlias(name, alias, newAlias)
  \/ \E alias \in Addressable : HandleByAlias(alias)

SpecLookup == Init /\ [][NextLookup]_vars

\* The commands that create, rename and remove instances, and status, call
\* and stop by name and alias and by pid; the clock stands still. The API
\* object of every instance does the same with the method a caller names.
NextPids ==
  \/ \E name \in Names : Register(name, AppClassOf(name))
  \/ \E name \in Names, alias \in SpawnArgs \cup {""},
        hb \in HookBehaviours, t \in {now} : Spawn(name, alias, hb, t)
  \/ \E name \in Names, alias \in Addressable, force \in BOOLEAN,
        hb \in HookBehaviours, t \in {now} : Stop(name, alias, force, hb, t)
  \/ \E pid \in Pids, force \in BOOLEAN, hb \in HookBehaviours, t \in {now} :
        StopByPid(pid, force, hb, t)
  \/ \E name \in Names, alias \in Addressable, newAlias \in Assignable :
        SetAliasByNameAndAlias(name, alias, newAlias)
  \/ \E name \in Names, alias \in Addressable : Status(name, alias)
  \/ \E pid \in Pids : StatusByPid(pid)
  \/ \E name \in Names, alias \in Addressable, b \in ApiBehaviours :
        Call(name, alias, [ref \in DOMAIN objs |-> b])
  \/ \E pid \in Pids, b \in ApiBehaviours :
        CallByPid(pid, [ref \in DOMAIN objs |-> b])

SpecPids == Init /\ [][NextPids]_vars

\* The commands that validate their arguments, one complete command at a time,
\* with the clock standing still. The callers activate in the foreground, and
\* address deactivate, suspend, resume, signal and status to (name, alias)
\* pairs that have no instance.
NextValidation ==
  \/ \E name \in Names : Register(name, AppClassOf(name))
  \/ \E name \in Names, alias \in SpawnArgs,
        hb \in HookBehaviours, t \in {now} : Spawn(name, alias, hb, t)
  \/ \E name \in Names, alias \in Addressable, mode \in {"foreground"},
        hb \in HookBehaviours, t \in {now} : Activate(name, alias, mode, hb, t)
  \/ \E name \in Names, alias \in Addressable, hb \in HookBehaviours, t \in {now} :
        Instance(name, alias) = NoRef /\ Deactivate(name, alias, hb, t)
  \/ \E name \in Names, alias \in Addressable, hb \in HookBehaviours, t \in {now} :
        Instance(name, alias) = NoRef /\ Suspend(name, alias, hb, t)
  \/ \E name \in Names, alias \in Addressable, hb \in HookBehaviours, t \in {now} :
        Instance(name, alias) = NoRef /\ Resume(name, alias, hb, t)
  \/ \E name \in Names, alias \in Addressable, sig \in Signals,
        hb \in HookBehaviours, t \in {now} :
        Instance(name, alias) = NoRef /\ Signal(name, alias, sig, hb, t)
  \/ \E name \in Names, alias \in Addressable :
        Instance(name, alias) = NoRef /\ Status(name, alias)
  \/ \E name \in Names, alias \in Addressable, force \in BOOLEAN,
        hb \in HookBehaviours, t \in {now} : Stop(name, alias, force, hb, t)
  \/ \E name \in Names, alias \in Addressable,
        newAlias \in Assignable \cup {NumberAlias} :
        SetAliasByNameAndAlias(name, alias, newAlias)
  \/ \E name \in Names : Api(name, NoAlias)
  \/ \E alias \in Addressable : HandleByAlias(alias)

SpecValidation == Init /\ [][NextValidation]_vars

\* Callers that do not wait for a command to return before they call the
\* next: a command that calls a hook waits until the hook settles, and the
\* other commands run meanwhile. The clock stands still; the callers spawn,
\* activate in the foreground, suspend, stop and rename to the user aliases.
NextTasks ==
  \/ \E name \in Names : Register(name, AppClassOf(name))
  \/ \E name \in Names, alias \in SpawnArgs, t \in {now} :
        /\ Cardinality(DOMAIN objs) < MaxLive \/ Instance(name, alias) # NoRef
        /\ Len(pending) < MaxTasks
        /\ SpawnCall(name, alias, t)
  \/ \E name \in Names, alias \in Addressable, mode \in {"foreground"}, t \in {now} :
        /\ Len(pending) < MaxTasks
        /\ ActivateCall(name, alias, mode, t)
  \/ \E name \in Names, alias \in Addressable, t \in {now} :
        /\ Len(pending) < MaxTasks
        /\ SuspendCall(name, alias, t)
  \/ \E name \in Names, alias \in Addressable, force \in BOOLEAN, t \in {now} :
        /\ Len(pending) < MaxTasks
        /\ StopCall(name, alias, force, t)
  \/ \E i \in DOMAIN pending, hb \in HookBehaviours, t \in {now} : Settle(i, hb, t)
  \/ \E name \in Names, alias \in Addressable, newAlias \in UserAliases :
        SetAliasByNameAndAlias(name, alias, newAlias)

SpecTasks == Init /\ [][NextTasks]_vars

\* The two callers on an orchestrator on which the app of their instances has
\* been registered; each has its sequence of commands before it. The clock
\* stands still.
InitCallers ==
  /\ registry = MapSet(EmptyMap, "worker",
                       [AppClass |-> AppClassOf("worker"), instances |-> EmptyMap])
  /\ objs = EmptyMap
  /\ pidSeq = PidBase
  /\ processIndex = EmptyMap
  /\ instanceIndex = EmptyMap
  /\ globalAliasIndex = EmptyMap
  /\ now = 0
  /\ result = Returned("register", NoRet)
  /\ \E s1 \in Scripts, s2 \in Scripts :
       pending = << Caller(IdleTask(CallerTargets[1]), s1, 1),
                    Caller(IdleTask(CallerTargets[2]), s2, 1) >>

NextCallers ==
  \/ \E i \in DOMAIN pending : CallerCalls(i)
  \/ \E i \in DOMAIN pending : CallerSettles(i)

SpecCallers == InitCallers /\ [][NextCallers]_vars

\* Boot: the apps are registered with their meta on a new orchestrator, then
\* setup() runs once with a manifest and the autostart driver goes through
\* the registry; no other command is called meanwhile. The clock stands
\* still.
NextBoot ==
  \/ \E name \in Names, autostart \in MetaAutostart, autostartMode \in MetaModes :
        /\ result.cmd \in {"new", "register"}
        /\ RegisterWith(name, AppClassOf(name), autostart, autostartMode)
  \/ \E manifest \in Manifests :
        \E order \in Orders(DOMAIN registry \cup DOMAIN manifest) :
          /\ result.cmd \in {"new", "register"}
          /\ Setup(manifest, order)
  \/ AutostartSkip
  \/ \E hb \in HookBehaviours, t \in {now} : AutostartSpawn(hb, t)
  \/ \E hb \in HookBehaviours, t \in {now} : AutostartActivate(hb, t)
  \/ AutostartEnds

SpecBoot == Init /\ [][NextBoot]_vars

\* Callers that spawn without waiting for the spawn before to return, and
\* stop what they spawned; the clock stands still.
NextSpawns ==
  \/ \E name \in Names : Register(name, AppClassOf(name))
  \/ \E name \in Names, alias \in SpawnArgs, t \in {now} :
        /\ Len(pending) < MaxTasks
        /\ SpawnCall(name, alias, t)
  \/ \E i \in DOMAIN pending, hb \in HookBehaviours, t \in {now} : Settle(i, hb, t)
  \/ \E name \in Names, alias \in Addressable, hb \in HookBehaviours, t \in {now} :
        Stop(name, alias, FALSE, hb, t)

SpecSpawns == Init /\ [][NextSpawns]_vars

\* Callers that keep a handle while they spawn, stop and rename, and call
\* setAlias on the handle later; hooks return and the clock stands still.
NextHandles ==
  \/ \E name \in Names : Register(name, AppClassOf(name))
  \/ \E name \in Names, alias \in SpawnArgs, t \in {now} : Spawn(name, alias, "ok", t)
  \/ \E name \in Names, alias \in Addressable, t \in {now} :
        Stop(name, alias, FALSE, "ok", t)
  \/ \E alias \in Addressable :
        Len(pending) < MaxHandles /\ HandleKept("getByAlias", GetByAlias(alias))
  \/ \E name \in Names, alias \in Addressable :
        /\ Len(pending) < MaxHandles
        /\ HandleKept("getByNameAndAlias", GetByNameAndAlias(name, alias))
  \/ \E pid \in Pids :
        Len(pending) < MaxHandles /\ HandleKept("getByPid", GetByPid(pid))
  \/ \E i \in DOMAIN pending, newAlias \in UserAliases : KeptSetAlias(i, newAlias)

SpecHandles == Init /\ [][NextHandles]_vars

\* The last command was cmd and returned without error.
Did(cmd) == result.cmd = cmd /\ result.err = "none"

\* Callers that run the end-to-end scenario on a new orchestrator: they
\* register the apps, then spawn an instance without an alias, activate it in
\* the foreground, suspend it, resume it and stop it, each command after the
\* one before has returned, and start again with a spawn after the stop. They
\* give up when a command throws.
NextScenario ==
  \/ \E name \in Names :
        /\ result.cmd \in {"new", "register"}
        /\ ~Has(registry, name)
        /\ Register(name, AppClassOf(name))
  \/ \E name \in DOMAIN registry, hb \in HookBehaviours, t \in 0..MaxTime :
        /\ Did("register") \/ Did("stop")
        /\ Spawn(name, NoAlias, hb, t)
  \/ \E pair \in Live, mode \in {"foreground"}, hb \in HookBehaviours,
        t \in 0..MaxTime :
        /\ Did("spawn")
        /\ Activate(pair[1], pair[2], mode, hb, t)
  \/ \E pair \in Live, hb \in HookBehaviours, t \in 0..MaxTime :
        /\ Did("activate")
        /\ Suspend(pair[1], pair[2], hb, t)
  \/ \E pair \in Live, hb \in HookBehaviours, t \in 0..MaxTime :
        /\ Did("suspend")
        /\ Resume(pair[1], pair[2], hb, t)
  \/ \E pair \in Live, force \in BOOLEAN, hb \in HookBehaviours, t \in 0..MaxTime :
        /\ Did("resume")
        /\ Stop(pair[1], pair[2], force, hb, t)

SpecScenario == Init /\ [][NextScenario]_vars

\* ------------------------------------------------------------- properties

\* The step is setAlias(newAlias) called on a handle that a getter has just
\* returned for the instance (name, alias).
SetAliasOn(name, alias, newAlias) ==
  \/ /\ GetByNameAndAlias(name, alias).err = "none"
     /\ SetAliasByNameAndAlias(name, alias, newAlias)
  \/ /\ GetByAlias(alias).err = "none"
     /\ GetByAlias(alias).name = name
     /\ SetAliasByAlias(alias, newAlias)
  \/ \E pid \in Pids :
       /\ GetByPid(pid).err = "none"
       /\ GetByPid(pid).name = name
       /\ GetByPid(pid).alias = alias
       /\ SetAliasByPid(pid, newAlias)

\* The step is one of activate, deactivate, suspend, resume, signal and stop
\* addressed to (name, alias), its hook (if it calls one) behaving as hb.
CommandOn(name, alias, hb) ==
  \/ /\ result'.cmd = "activate"
     /\ \E mode \in Modes : Activate(name, alias, mode, hb, now')
  \/ /\ result'.cmd = "deactivate"
     /\ Deactivate(name, alias, hb, now')
  \/ /\ result'.cmd = "suspend"
     /\ Suspend(name, alias, hb, now')
  \/ /\ result'.cmd = "resume"
     /\ Resume(name, alias, hb, now')
  \/ /\ result'.cmd = "signal"
     /\ \E sig \in Signals : Signal(name, alias, sig, hb, now')
  \/ /\ result'.cmd = "stop"
     /\ \E force \in BOOLEAN : Stop(name, alias, force, hb, now')

\* The transition table has no entry for the event in the instance's state.
NoEntryFor(name, alias, event) ==
  TransitionsGet(TransitionKey(StateOf(name, alias), event)) = NoEntry

\* The step is a command on (name, alias) that requests an event the table
\* has no entry for. suspend on a SUSPENDED instance requests none.
RequestsInvalid(name, alias, hb) ==
  \/ /\ result'.cmd = "activate"
     /\ \E mode \in Modes : /\ NoEntryFor(name, alias, ActivateEvent(mode))
                            /\ Activate(name, alias, mode, hb, now')
  \/ /\ result'.cmd = "deactivate"
     /\ NoEntryFor(name, alias, "DEACTIVATE")
     /\ Deactivate(name, alias, hb, now')
  \/ /\ result'.cmd = "suspend"
     /\ StateOf(name, alias) # SUSPENDED
     /\ NoEntryFor(name, alias, "SUSPEND")
     /\ Suspend(name, alias, hb, now')
  \/ /\ result'.cmd = "resume"
     /\ NoEntryFor(name, alias, "RESUME")
     /\ Resume(name, alias, hb, now')
  \/ /\ result'.cmd = "signal"
     /\ NoEntryFor(name, alias, "SIGNAL")
     /\ \E sig \in Signals : Signal(name, alias, sig, hb, now')
  \/ /\ result'.cmd = "stop"
     /\ NoEntryFor(name, alias, "STOP")
     /\ \E force \in BOOLEAN : Stop(name, alias, force, hb, now')

\* C1: after every completed command every live instance has exactly one
\* entry in the pid index, one in the (name, alias) index, one in the global
\* alias index and one in its app's alias map, the four agree on its name,
\* alias and pid, and no index holds an entry for an instance that is not
\* live.
C1_IndicesConsistent ==
  /\ \A pair \in Live :
       LET name == pair[1]
           alias == pair[2]
           pid == PidOf(name, alias)
       IN /\ Has(instanceIndex, InstanceKey(name, alias))
          /\ instanceIndex[InstanceKey(name, alias)] = pid
          /\ Has(processIndex, pid)
          /\ processIndex[pid] = [name |-> name, alias |-> alias]
          /\ \A other \in DOMAIN processIndex :
               processIndex[other] = [name |-> name, alias |-> alias] => other = pid
          /\ Has(globalAliasIndex, alias)
          /\ globalAliasIndex[alias] = [name |-> name, alias |-> alias]
  /\ \A pid \in DOMAIN processIndex :
       << processIndex[pid].name, processIndex[pid].alias >> \in Live
  /\ \A key \in DOMAIN instanceIndex :
       \E pair \in Live : key = InstanceKey(pair[1], pair[2])
  /\ \A alias \in DOMAIN globalAliasIndex :
       << globalAliasIndex[alias].name, globalAliasIndex[alias].alias >> \in Live

\* C2: spawn(name, alias) for an app that already has an instance under the
\* alias returns that alias with the pid the instance was created with, calls
\* no constructor and no hook, and leaves the registry, the indices and the
\* instances as they are; the pid an instance is created with is the pid its
\* spawn returns.
C2_SpawnIdempotent ==
  [][result'.cmd = "spawn" =>
       \A name \in Names, aliasArg \in SpawnArgs \cup {""}, hb \in HookBehaviours :
         \A alias \in {SpawnAlias(aliasArg, NextPid)} :
           Spawn(name, aliasArg, hb, now') =>
             /\ Instance(name, alias) # NoRef =>
                  /\ result'.err = "none"
                  /\ result'.ret = [alias |-> alias, pid |-> PidOf(name, alias)]
                  /\ ~result'.ctor
                  /\ result'.hooks = << >>
                  /\ UNCHANGED << stores, objs >>
             /\ (Instance(name, alias) = NoRef /\ result'.err = "none") =>
                  /\ result'.ret.alias = alias
                  /\ Instance(name, alias)' # NoRef
                  /\ PidOf(name, alias)' = result'.ret.pid]_vars

\* C2 witness: a spawn has returned an existing instance's alias and pid
\* without constructing anything.
C2_Witness ==
  /\ result.cmd = "spawn"
  /\ result.err = "none"
  /\ ~result.ctor
  /\ << "worker", result.ret.alias >> \in Live
  /\ PidOf("worker", result.ret.alias) = result.ret.pid

\* C3: stop(name, alias) for an app that is not registered or has no instance
\* under the alias returns without error and leaves the registry, the indices
\* and every instance as they are; a stop that succeeds leaves no instance
\* under (name, alias), so that a second stop is of the first kind.
C3_StopIdempotent ==
  [][result'.cmd = "stop" =>
       \A name \in Names, alias \in AliasArgs, force \in BOOLEAN :
         /\ (Instance(name, alias) = NoRef /\ Stop(name, alias, force, "ok", now')) =>
              /\ result'.err = "none"
              /\ UNCHANGED << stores, objs >>
         /\ (/\ Instance(name, alias) # NoRef
             /\ result'.err = "none"
             /\ \E hb \in HookBehaviours : Stop(name, alias, force, hb, now')) =>
              Instance(name, alias)' = NoRef]_vars

\* C3 witness: a stop has returned without a transition when every instance
\* spawned so far had been stopped.
C3_Witness ==
  /\ result.cmd = "stop"
  /\ result.err = "none"
  /\ result.records = << >>
  /\ pidSeq > PidBase
  /\ Live = {}

\* C4: after setAlias(newAlias) succeeds on a handle for (name, old), the app's
\* alias map and the three indices hold nothing of the instance under old and
\* hold it under newAlias, and getByAlias(newAlias) and
\* getByNameAndAlias(name, newAlias) resolve to the instance, with the pid and
\* the state it had.
C4_RenameAtomic ==
  [][(result'.cmd = "setAlias" /\ result'.err = "none") =>
       \A name \in Names, old \in AliasArgs, new \in AliasArgs :
         (new # old /\ Instance(name, old) # NoRef /\ SetAliasOn(name, old, new)) =>
           LET ref == Instance(name, old)
               pid == PidOf(name, old)
               here == [name |-> name, alias |-> new]
           IN /\ ~Has(registry'[name].instances, old)
              /\ ~Has(instanceIndex', InstanceKey(name, old))
              /\ \A p \in DOMAIN processIndex' :
                   processIndex'[p] # [name |-> name, alias |-> old]
              /\ Has(globalAliasIndex', old) => globalAliasIndex'[old].name # name
              /\ Instance(name, new)' = ref
              /\ PidOrNull(name, new)' = pid
              /\ Has(processIndex', pid) /\ processIndex'[pid] = here
              /\ Has(globalAliasIndex', new) /\ globalAliasIndex'[new] = here
              /\ GetByAlias(new)' = [err |-> "none", name |-> name, alias |-> new,
                                     ref |-> ref]
              /\ GetByNameAndAlias(name, new)' = [err |-> "none", name |-> name,
                                                  alias |-> new, ref |-> ref]
              /\ objs' = objs]_vars

\* C5 as stated: setAlias(newAlias) on a handle for (name, old), when another
\* instance of the same app has newAlias, throws the collision error and
\* leaves the app's alias map and the three indices as they are.
C5_SameAppCollision ==
  [][result'.cmd = "setAlias" =>
       \A name \in Names, old \in AliasArgs, new \in AliasArgs :
         (/\ new # old
          /\ Instance(name, old) # NoRef
          /\ Instance(name, new) # NoRef
          /\ SetAliasOn(name, old, new)) =>
           /\ result'.err = "AliasCollision"
           /\ UNCHANGED stores]_vars

\* C5 amended: it throws the collision error when newAlias is not the empty
\* string and the invalid-alias error when it is, and leaves the app's alias
\* map and the three indices as they are in both cases.
C5_SameAppCollisionNonEmpty ==
  [][result'.cmd = "setAlias" =>
       \A name \in Names, old \in AliasArgs, new \in AliasArgs :
         (/\ new # old
          /\ Instance(name, old) # NoRef
          /\ Instance(name, new) # NoRef
          /\ SetAliasOn(name, old, new)) =>
           /\ result'.err = (IF new = "" THEN "InvalidAlias" ELSE "AliasCollision")
           /\ UNCHANGED stores]_vars

\* C5 witness: a setAlias has thrown the collision error while one app had
\* two instances.
C5_Witness ==
  /\ result.cmd = "setAlias"
  /\ result.err = "AliasCollision"
  /\ \E name \in DOMAIN registry : Cardinality(DOMAIN registry[name].instances) = 2

\* C6: setAlias(newAlias) on a handle for (name, old), newAlias not the empty
\* string, throws the collision error and changes no index whenever some
\* other live instance, of any app, has the alias newAlias.
C6_GloballyUnique ==
  [][result'.cmd = "setAlias" =>
       \A name \in Names, old \in AliasArgs, new \in AliasArgs :
         (/\ new # old
          /\ new # ""
          /\ Instance(name, old) # NoRef
          /\ \E other \in Names : Instance(other, new) # NoRef
          /\ SetAliasOn(name, old, new)) =>
           /\ result'.err = "AliasCollision"
           /\ UNCHANGED stores]_vars

\* C7 as stated: setAlias(newAlias) on a handle for (name, alias) with
\* newAlias = alias returns the no-op result and leaves the app's alias map
\* and the three indices as they are.
C7_SameAliasNoop ==
  [][result'.cmd = "setAlias" =>
       \A name \in Names, alias \in AliasArgs :
         (Instance(name, alias) # NoRef /\ SetAliasOn(name, alias, alias)) =>
           /\ result'.err = "none"
           /\ result'.ret.noop
           /\ UNCHANGED stores]_vars

\* C7 amended: the same for an alias that is not the empty string; for the
\* instance whose alias is the empty string setAlias("") throws the
\* invalid-alias error, and leaves the alias map and the indices as they are
\* all the same.
C7_NonEmptySameAliasNoop ==
  [][result'.cmd = "setAlias" =>
       \A name \in Names, alias \in AliasArgs :
         (Instance(name, alias) # NoRef /\ SetAliasOn(name, alias, alias)) =>
           /\ alias # "" =>
                /\ result'.err = "none"
                /\ result'.ret = [name |-> name, oldAlias |-> alias,
                                  newAlias |-> alias, pid |-> PidOrNull(name, alias),
                                  noop |-> TRUE]
           /\ alias = "" => result'.err = "InvalidAlias"
           /\ UNCHANGED stores]_vars

\* C7 witness: a setAlias has returned the no-op result.
C7_Witness ==
  /\ result.cmd = "setAlias"
  /\ result.err = "none"
  /\ result.ret.noop
  /\ << result.ret.name, result.ret.newAlias >> \in Live

C9_InvalidTransitionChangesNothing ==
  [][\A pair \in Live, hb \in HookBehaviours :
       RequestsInvalid(pair[1], pair[2], hb) =>
         /\ result'.err = "InvalidTransition"
         /\ result'.hooks = << >>
         /\ result'.records = << >>
         /\ objs' = objs
         /\ UNCHANGED << stores, now >>]_vars

\* C9 witness: a resume has been refused on an instance that is active in the
\* foreground, after the clock has advanced.
C9_Witness ==
  /\ result.cmd = "resume"
  /\ result.err = "InvalidTransition"
  /\ now = MaxTime
  /\ Live # {}
  /\ \A pair \in Live : StateOf(pair[1], pair[2]) = ACTIVE_FOREGROUND

NonTerminal == {INACTIVE, ACTIVE_FOREGROUND, ACTIVE_BACKGROUND, SUSPENDED, TERMINATING}

\* C11: signal(name, alias, sig) on a live instance in INACTIVE,
\* ACTIVE_FOREGROUND, ACTIVE_BACKGROUND, SUSPENDED or TERMINATING does not throw
\* the invalid-transition error, and calls onSignal with the signal (SIGHUP for
\* an empty one) when the app has the hook.
C11_SignalAcceptedWhileNotTerminal ==
  [][result'.cmd = "signal" =>
       \A pair \in Live, sig \in Signals, hb \in HookBehaviours :
         (/\ StateOf(pair[1], pair[2]) \in NonTerminal
          /\ Signal(pair[1], pair[2], sig, hb, now')) =>
           /\ result'.err # "InvalidTransition"
           /\ "onSignal" \in HooksOfClass(objs[Instance(pair[1], pair[2])].app) =>
                /\ Len(result'.hooks) = 1
                /\ result'.hooks[1].hook = "onSignal"
                /\ result'.hooks[1].arg = (IF sig = "" THEN "SIGHUP" ELSE sig)]_vars

\* The state activate leaves for a mode.
ActiveState(mode) == IF mode = "background" THEN ACTIVE_BACKGROUND ELSE ACTIVE_FOREGROUND

\* C12: activate(name, alias, {mode}) on a live instance in INACTIVE,
\* ACTIVE_FOREGROUND or ACTIVE_BACKGROUND, its hook returning, succeeds, leaves
\* the instance in the active state of the mode (so that it switches between
\* foreground and background), and calls onActivate with the mode when the app
\* has the hook.
C12_ActivateSwitchesMode ==
  [][result'.cmd = "activate" =>
       \A pair \in Live, mode \in Modes :
         (/\ StateOf(pair[1], pair[2]) \in {INACTIVE, ACTIVE_FOREGROUND, ACTIVE_BACKGROUND}
          /\ Activate(pair[1], pair[2], mode, "ok", now')) =>
           /\ result'.err = "none"
           /\ StateOf(pair[1], pair[2])' = ActiveState(mode)
           /\ "onActivate" \in HooksOfClass(objs[Instance(pair[1], pair[2])].app) =>
                /\ Len(result'.hooks) = 1
                /\ result'.hooks[1].hook = "onActivate"
                /\ result'.hooks[1].arg = mode]_vars

\* The states from which the table accepts deactivate, suspend and resume, and
\* the state each leads to.
Accepting(event) ==
  CASE event = "DEACTIVATE" -> {ACTIVE_FOREGROUND, ACTIVE_BACKGROUND}
    [] event = "SUSPEND" -> {INACTIVE, ACTIVE_FOREGROUND, ACTIVE_BACKGROUND}
    [] event = "RESUME" -> {SUSPENDED}
Target(event) ==
  CASE event = "DEACTIVATE" -> INACTIVE
    [] event = "SUSPEND" -> SUSPENDED
    [] event = "RESUME" -> INACTIVE

C14_SuspendOnSuspendedSkipped ==
  [][result'.cmd = "suspend" =>
       \A pair \in Live, hb \in HookBehaviours :
         (/\ StateOf(pair[1], pair[2]) = SUSPENDED
          /\ Suspend(pair[1], pair[2], hb, now')) =>
           /\ result'.err = "none"
           /\ result'.hooks = << >>
           /\ result'.records = << >>
           /\ objs' = objs
           /\ UNCHANGED << stores, now >>]_vars

\* C14 witness: a suspend has returned without a transition on a SUSPENDED
\* instance of the app that has an onSuspend hook, after the clock has advanced.
C14_Witness ==
  /\ result.cmd = "suspend"
  /\ result.err = "none"
  /\ result.records = << >>
  /\ now = MaxTime
  /\ Live # {}
  /\ \A pair \in Live :
       /\ StateOf(pair[1], pair[2]) = SUSPENDED
       /\ "onSuspend" \in HooksOfClass(objs[Instance(pair[1], pair[2])].app)

\* The states from which the first STOP of a stop leads to TERMINATING.
Stoppable == {INACTIVE, ACTIVE_FOREGROUND, ACTIVE_BACKGROUND, SUSPENDED}

\* The step is the first part of stop(name, alias), its hook behaving as hb.
StopBeginOn(name, alias, hb) ==
  /\ result'.cmd \in {"stop", "stopping"}
  /\ \E force \in BOOLEAN : StopBegin(name, alias, force, hb, now')

\* The step is the second part of a waiting stop of (name, alias) that holds
\* the instance ref.
StopFinishOn(name, alias, ref) ==
  /\ result'.cmd = "stop"
  /\ \E i \in DOMAIN pending, hb \in HookBehaviours :
       /\ pending[i] = [name |-> name, alias |-> alias, ref |-> ref]
       /\ StopFinish(i, hb, now')

\* C15: the first part of stop(name, alias) on a live instance in INACTIVE,
\* ACTIVE_FOREGROUND, ACTIVE_BACKGROUND or SUSPENDED whose onTerminate does not
\* throw leaves the instance TERMINATING and still in the app's alias map and
\* the three indices; its second part, the instance being TERMINATING as the
\* first part left it, moves it to TERMINATED and removes it from the alias map
\* and from the three indices, after which status(name, alias) throws the
\* not-running error; and no step removes an instance without that last
\* transition from TERMINATING to TERMINATED.
C15_StopTerminatesThenRemoves ==
  [][\A pair \in Live :
       LET name == pair[1]
           alias == pair[2]
           ref == Instance(name, alias)
           pid == PidOf(name, alias)
           from == StateOf(name, alias)
       IN /\ (from \in Stoppable /\ StopBeginOn(name, alias, "ok")) =>
               /\ result'.cmd = "stopping"
               /\ objs'[ref].state = TERMINATING
               /\ Len(result'.records) = 1
               /\ result'.records[1].from = from
               /\ result'.records[1].to = TERMINATING
               /\ UNCHANGED stores
          /\ (from = TERMINATING /\ StopFinishOn(name, alias, ref)) =>
               /\ result'.err = "none"
               /\ Len(result'.records) = 1
               /\ result'.records[1].from = TERMINATING
               /\ result'.records[1].to = TERMINATED
               /\ ~Has(registry'[name].instances, alias)
               /\ ~Has(processIndex', pid)
               /\ ~Has(instanceIndex', InstanceKey(name, alias))
               /\ ~Has(globalAliasIndex', alias)
               /\ StatusOf(name, alias)'.err = "InstanceNotRunning"
          /\ Instance(name, alias)' # ref =>
               /\ result'.records # << >>
               /\ result'.records[Len(result'.records)].from = TERMINATING
               /\ result'.records[Len(result'.records)].to = TERMINATED]_vars

\* C15 witness: a stop has finished with the transition from TERMINATING to
\* TERMINATED and no instance, and no index entry, is left.
C15_Witness ==
  /\ result.cmd = "stop"
  /\ result.err = "none"
  /\ Len(result.records) = 1
  /\ result.records[1].from = TERMINATING
  /\ result.records[1].to = TERMINATED
  /\ pending = << >>
  /\ Live = {}
  /\ processIndex = EmptyMap /\ instanceIndex = EmptyMap /\ globalAliasIndex = EmptyMap

\* C16: stop(name, alias) on a live instance, whatever its state (CRASHED
\* too), its onTerminate not throwing, returns without error with the instance
\* moved to TERMINATED and removed from the app's alias map.
C16_StopFromAnyState ==
  [][result'.cmd = "stop" =>
       \A pair \in Live, force \in BOOLEAN :
         Stop(pair[1], pair[2], force, "ok", now') =>
           /\ result'.err = "none"
           /\ result'.records # << >>
           /\ result'.records[Len(result'.records)].to = TERMINATED
           /\ Instance(pair[1], pair[2])' = NoRef]_vars

\* The number of calls of a hook among the hook calls of a command.
Calls(hooks, hook) == Cardinality({i \in DOMAIN hooks : hooks[i].hook = hook})

\* C17: stop(name, alias, {force: true}) on a live instance calls onTerminate
\* in neither of its two transitions and removes the instance from the app's
\* alias map; stop without force on a live instance of an app that has
\* onTerminate calls it exactly once.
C17_ForceSkipsOnTerminate ==
  [][result'.cmd = "stop" =>
       \A pair \in Live, hb \in HookBehaviours :
         /\ Stop(pair[1], pair[2], TRUE, hb, now') =>
              /\ Calls(result'.hooks, "onTerminate") = 0
              /\ Instance(pair[1], pair[2])' = NoRef
         /\ (/\ "onTerminate" \in HooksOfClass(objs[Instance(pair[1], pair[2])].app)
             /\ Stop(pair[1], pair[2], FALSE, hb, now')) =>
              Calls(result'.hooks, "onTerminate") = 1]_vars

\* C18: on a new orchestrator, after register(name), the first spawn(name)
\* returns alias "1001" and pid 1001 and the instance is INACTIVE; then
\* activate in the foreground leaves it ACTIVE_FOREGROUND, suspend leaves it
\* SUSPENDED, resume leaves it INACTIVE, stop removes it, and status(name,
\* "1001") then throws the not-running error (no hook throwing).
C18_EndToEnd ==
  [][\A name \in DOMAIN registry :
       /\ (Did("register") /\ pidSeq = PidBase /\ Spawn(name, NoAlias, "ok", now')) =>
            /\ result'.err = "none"
            /\ result'.ret = [alias |-> "1001", pid |-> 1001]
            /\ StatusOf(name, "1001")'.err = "none"
            /\ StatusOf(name, "1001")'.ret.pid = 1001
            /\ StatusOf(name, "1001")'.ret.state = INACTIVE
       /\ pidSeq = PidBase + 1 =>
            /\ (Did("spawn") /\ Activate(name, "1001", "foreground", "ok", now')) =>
                 /\ result'.err = "none"
                 /\ StatusOf(name, "1001")'.ret.state = ACTIVE_FOREGROUND
            /\ (Did("activate") /\ Suspend(name, "1001", "ok", now')) =>
                 /\ result'.err = "none"
                 /\ StatusOf(name, "1001")'.ret.state = SUSPENDED
            /\ (Did("suspend") /\ Resume(name, "1001", "ok", now')) =>
                 /\ result'.err = "none"
                 /\ StatusOf(name, "1001")'.ret.state = INACTIVE
            /\ (Did("resume") /\ Stop(name, "1001", FALSE, "ok", now')) =>
                 /\ result'.err = "none"
                 /\ Live' = {}
                 /\ StatusOf(name, "1001")'.err = "InstanceNotRunning"]_vars

\* C18 witness: the scenario has run to the end of its first round on the app
\* worker: the stop of worker:1001 has returned, and nothing is left.
C18_Witness ==
  /\ Did("stop")
  /\ pidSeq = PidBase + 1
  /\ Len(result.records) = 2
  /\ result.records[2].name = "worker"
  /\ result.records[2].alias = "1001"
  /\ result.records[2].to = TERMINATED
  /\ Live = {}
  /\ StatusOf("worker", "1001").err = "InstanceNotRunning"

\* C19: over spawn, rename and stop, the pid counter never decreases and no
\* live instance has a pid above it; an instance that a step creates has a pid
\* above the counter, hence above every pid handed out before, which becomes
\* the counter and is the pid its spawn returns; no step changes the pid of an
\* instance; and a rename returns the instance's pid and leaves it under the
\* new alias with that pid, in the instance and in the (name, alias) index.
C19_PidsUniqueMonotonic ==
  [][/\ pidSeq' >= pidSeq
     /\ \A ref \in DOMAIN objs : objs[ref].pid <= pidSeq
     /\ \A ref \in DOMAIN objs' \ DOMAIN objs :
          /\ result'.cmd = "spawn"
          /\ objs'[ref].pid > pidSeq
          /\ objs'[ref].pid = pidSeq'
          /\ objs'[ref].pid = result'.ret.pid
          /\ \A other \in DOMAIN objs : objs[other].pid < objs'[ref].pid
     /\ \A ref \in DOMAIN objs \cap DOMAIN objs' : objs'[ref].pid = objs[ref].pid
     /\ (result'.cmd = "setAlias" /\ result'.err = "none") =>
          \A r \in {result'.ret} :
            /\ r.pid = PidOf(r.name, r.oldAlias)
            /\ PidOf(r.name, r.newAlias)' = r.pid
            /\ PidOrNull(r.name, r.newAlias)' = r.pid]_vars

\* C19 witness: a rename has just succeeded while two instances with the pids
\* 1001 and 1002 are live, and the renamed instance has the pid it had.
C19_Witness ==
  /\ Did("setAlias")
  /\ ~result.ret.noop
  /\ {objs[ref].pid : ref \in DOMAIN objs} = {PidBase + 1, PidBase + 2}
  /\ PidOf(result.ret.name, result.ret.newAlias) = result.ret.pid

\* C20: broadcast(name, method) on a registered app does not throw, changes
\* nothing, and returns one result per live instance of the app, with the
\* instance's alias and pid: ok false with an error when the instance's API
\* object lacks the method or the method throws, ok true with the value the
\* instance's method returned otherwise.
C20_BroadcastIsolatesFailures ==
  [][result'.cmd = "broadcast" =>
       \A name \in DOMAIN registry, beh \in [DOMAIN objs -> ApiBehaviours] :
         Broadcast(name, beh) =>
           /\ result'.err = "none"
           /\ UNCHANGED << stores, objs >>
           /\ Cardinality(result'.ret) = Cardinality(DOMAIN registry[name].instances)
           /\ \A alias \in DOMAIN registry[name].instances :
                \E r \in result'.ret :
                  /\ r.alias = alias
                  /\ r.pid = PidOf(name, alias)
                  /\ r.ok = (beh[Instance(name, alias)] = "returns")
                  /\ r.ok => r.value = << "value of", PidOf(name, alias) >>
                  /\ ~r.ok => r.error # "none"]_vars

\* C21: api(name) with the alias omitted changes nothing; on an app with
\* exactly one live instance it returns the API object of that instance, and
\* on an app with more than one it throws the multiple-instances error and
\* returns no API object.
C21_ApiWithoutAlias ==
  [][result'.cmd = "api" =>
       \A name \in DOMAIN registry :
         Api(name, NoAlias) =>
           /\ UNCHANGED << stores, objs, pidSeq >>
           /\ \A alias \in DOMAIN registry[name].instances :
                DOMAIN registry[name].instances = {alias} =>
                  /\ result'.err = "none"
                  /\ result'.ret = << "api of", PidOf(name, alias) >>
           /\ Cardinality(DOMAIN registry[name].instances) > 1 =>
                /\ result'.err = "AmbiguousInstance"
                /\ result'.ret = NoRet]_vars

\* api without alias has just thrown on an app that has two live instances.
C21_Witness ==
  /\ result.cmd = "api"
  /\ result.err = "AmbiguousInstance"
  /\ \E name \in DOMAIN registry : Cardinality(DOMAIN registry[name].instances) = 2

\* C22: getByAlias(alias) changes nothing; it returns a handle for the
\* instance when exactly one app has a live instance under the alias, and
\* throws the ambiguous-alias error when more than one app has one, whatever
\* spawns, renames and stops came before.
C22_GetByAliasAmbiguity ==
  [][result'.cmd = "getByAlias" =>
       \A alias \in AliasArgs :
         HandleByAlias(alias) =>
           /\ UNCHANGED << stores, objs, pidSeq >>
           /\ \A name \in Names :
                {pair \in Live : pair[2] = alias} = {<< name, alias >>} =>
                  /\ result'.err = "none"
                  /\ result'.ret = [name |-> name, alias |-> alias,
                                    api |-> << "api of", PidOf(name, alias) >>]
           /\ Cardinality({pair \in Live : pair[2] = alias}) > 1 =>
                /\ result'.err = "AmbiguousAlias"
                /\ result'.ret = NoRet]_vars

\* getByAlias has just thrown the ambiguous-alias error while two apps have a
\* live instance under one alias, one of them renamed to it or spawned after
\* the other.
C22_Witness ==
  /\ result.cmd = "getByAlias"
  /\ result.err = "AmbiguousAlias"
  /\ \E alias \in AliasArgs : Cardinality({pair \in Live : pair[2] = alias}) = 2

\* The step is one of activate, deactivate, suspend, resume, signal and status
\* addressed to (name, alias).
RequestOn(name, alias) ==
  \/ /\ result'.cmd = "activate"
     /\ \E mode \in Modes : Activate(name, alias, mode, "ok", now')
  \/ /\ result'.cmd = "deactivate"
     /\ Deactivate(name, alias, "ok", now')
  \/ /\ result'.cmd = "suspend"
     /\ Suspend(name, alias, "ok", now')
  \/ /\ result'.cmd = "resume"
     /\ Resume(name, alias, "ok", now')
  \/ /\ result'.cmd = "signal"
     /\ \E sig \in Signals : Signal(name, alias, sig, "ok", now')
  \/ /\ result'.cmd = "status"
     /\ Status(name, alias)

\* newAlias is the alias of a live instance other than (name, alias).
Colliding(name, alias, newAlias) ==
  /\ newAlias # alias
  /\ \E pair \in Live : pair[2] = newAlias /\ pair # << name, alias >>

\* The step threw and left the registry, the three indices, every instance
\* and the pid counter as they were.
RejectedUnchanged ==
  /\ result'.err # "none"
  /\ UNCHANGED << stores, objs, pidSeq >>

\* C23: validation errors change nothing. Each of these throws and leaves the
\* registry, the three indices, every instance's state and the pid counter
\* unchanged: spawn of an app that is not registered; activate, deactivate,
\* suspend, resume, signal and status on a (name, alias) without instance;
\* setAlias with an empty, non-string or colliding new alias; api without
\* alias on an app with several instances; getByAlias on an alias that
\* instances of several apps have.
C23_ValidationErrorsChangeNothing ==
  [][/\ result'.cmd = "spawn" =>
          \A name \in Names \ DOMAIN registry, aliasArg \in SpawnArgs :
            Spawn(name, aliasArg, "ok", now') => RejectedUnchanged
     /\ result'.cmd \in {"activate", "deactivate", "suspend", "resume", "signal",
                          "status"} =>
          \A name \in Names, alias \in AliasArgs :
            Instance(name, alias) = NoRef /\ RequestOn(name, alias) => RejectedUnchanged
     /\ result'.cmd = "setAlias" =>
          \A pair \in Live, newAlias \in AliasArgs \cup {NumberAlias} :
            /\ newAlias \in {"", NumberAlias} \/ Colliding(pair[1], pair[2], newAlias)
            /\ SetAliasByNameAndAlias(pair[1], pair[2], newAlias)
            => RejectedUnchanged
     /\ result'.cmd = "api" =>
          \A name \in DOMAIN registry :
            /\ Cardinality(DOMAIN registry[name].instances) > 1
            /\ Api(name, NoAlias)
            => RejectedUnchanged
     /\ result'.cmd = "getByAlias" =>
          \A alias \in AliasArgs :
            /\ Cardinality({pair \in Live : pair[2] = alias}) > 1
            /\ HandleByAlias(alias)
            => RejectedUnchanged]_vars

\* The context the claim requires for a hook of the instance (name, alias)
\* with this pid: the pid, and the dependency bag as adapters, with the
\* name, the alias and the logger of the bag.
CtxComplete(ctx, name, alias, pid) ==
  /\ ctx.pid = pid
  /\ ctx.adapters = Dependencies
  /\ ctx.logger = DependenciesConsole
  /\ ctx.name = name
  /\ ctx.alias = alias

\* C24: every hook called for an instance that spawn created (onCreate by the
\* spawn itself, the others by the commands addressed to the instance) gets a
\* context with the pid of the instance and, as adapters, the dependency bag
\* given to the constructor of the module.
C24_HookContext ==
  [][/\ result'.cmd = "spawn" =>
          \A name \in DOMAIN registry, aliasArg \in SpawnArgs, hb \in HookBehaviours :
            Spawn(name, aliasArg, hb, now') =>
              \A i \in DOMAIN result'.hooks :
                CtxComplete(result'.hooks[i].ctx, name, SpawnAlias(aliasArg, pidSeq'),
                            pidSeq')
     /\ result'.cmd # "spawn" =>
          \A pair \in Live, hb \in HookBehaviours :
            CommandOn(pair[1], pair[2], hb) =>
              \A i \in DOMAIN result'.hooks :
                CtxComplete(result'.hooks[i].ctx, pair[1], pair[2],
                            PidOf(pair[1], pair[2]))]_vars

\* C25: a transition of a state machine that is not refused (it completes, or
\* its hook throws and it ends CRASHED) sets lastTransitionAt to the time read
\* and emits exactly one record, with the machine's name and alias, the state
\* before as from, the event, the state after as to (CRASHED when the hook
\* threw), the new lastTransitionAt as at, and the error when the hook threw.
C25_TransitionRecord ==
  [][result'.cmd = "transition" =>
       \A ref \in DOMAIN objs, event \in ApplicationEvents, hb \in HookBehaviours :
         \A options \in EventOptions(event) :
           (/\ MachineEvent(ref, event, options, hb, now')
            /\ result'.err # "InvalidTransition") =>
             /\ objs'[ref].lastTransitionAt = now'
             /\ Len(result'.records) = 1
             /\ result'.records[1].name = objs[ref].name
             /\ result'.records[1].alias = objs[ref].alias
             /\ result'.records[1].from = objs[ref].state
             /\ result'.records[1].on = event
             /\ result'.records[1].to = objs'[ref].state
             /\ result'.records[1].error = (result'.err = "HookFailure")
             /\ result'.err = "HookFailure" => objs'[ref].state = CRASHED
             /\ result'.records[1].at = objs'[ref].lastTransitionAt]_vars

\* C26: transitions of one instance exclude each other. While a command waits
\* for the hook of its transition, no step other than the end of that command
\* changes the state machine of its instance, and no other command starts a
\* hook on that instance.
C26_TransitionsExclusive ==
  [][\A i \in DOMAIN pending :
       \A ref \in {pending[i].ref} :
         \/ pending' = Without(pending, i)
         \/ /\ ref \in DOMAIN objs'
            /\ objs'[ref] = objs[ref]
            /\ Cardinality({j \in DOMAIN pending' : pending'[j].ref = ref}) = 1]_vars

\* One command of the i-th caller run from its call to its return on run: the
\* pid counter and, for each caller's instance, whether it is registered and
\* its instance object.
SeqStep(run, i, c) ==
  LET x == CallerTargets[i]
      was == run.inst[i]
      pid == run.pidSeq + 1
      created == Transition(NewInstance(AppClassOf(x.name), x.name, x.alias, pid, now),
                            "CREATE", NoOptions, c.hb, now)
      event == IF c.op = "activate" THEN ActivateEvent("foreground")
               ELSE IF c.op = "suspend" THEN "SUSPEND" ELSE "STOP"
      driven == Transition(was.sm, event, NoOptions, c.hb, now)
      terminated == Transition(driven.sm, "STOP", NoOptions, c.hb, now)
  IN IF c.op = "spawn"
       THEN IF was.live THEN [run EXCEPT !.pidSeq = pid]
            ELSE [pidSeq |-> pid,
                  inst |-> [run.inst EXCEPT ![i] = [live |-> created.err = "none",
                                                    sm |-> created.sm]]]
     ELSE IF ~was.live THEN run
     ELSE IF c.op = "suspend" /\ SuspendSkipped(was.sm.state) THEN run
     ELSE IF c.op = "stop" /\ driven.err = "none"
       THEN [run EXCEPT !.inst[i] = [live |-> terminated.err # "none",
                                     sm |-> terminated.sm]]
     ELSE [run EXCEPT !.inst[i].sm = driven.sm]

\* The commands of script from the pos-th on, each called when the one before
\* has returned.
RECURSIVE SeqRun(_, _, _, _)
SeqRun(run, i, script, pos) ==
  IF pos > Len(script) THEN run
  ELSE SeqRun(SeqStep(run, i, script[pos]), i, script, pos + 1)

\* The two sequences one after the other, the first caller's first and the
\* second caller's first, on the orchestrator the callers start with.
SeqStart ==
  [pidSeq |-> PidBase,
   inst |-> [i \in 1..2 |-> [live |-> FALSE,
                             sm |-> NewInstance(AppClassOf(CallerTargets[i].name),
                                                CallerTargets[i].name,
                                                CallerTargets[i].alias, 0, now)]]]
SeqFirstThenSecond ==
  SeqRun(SeqRun(SeqStart, 1, pending[1].script, 1), 2, pending[2].script, 1)
SeqSecondThenFirst ==
  SeqRun(SeqRun(SeqStart, 2, pending[2].script, 1), 1, pending[1].script, 1)

\* Both callers are through their sequences.
CallersDone ==
  \A i \in DOMAIN pending : pending[i].cmd = "idle" /\ pending[i].pos > Len(pending[i].script)

\* The callers' instances that are registered, and the registry and indices
\* that hold exactly those, each under its name, alias and pid.
Registered == {i \in 1..2 : Instance(CallerTargets[i].name, CallerTargets[i].alias) # NoRef}
RegisteredObject(i) == objs[Instance(CallerTargets[i].name, CallerTargets[i].alias)]
HoldsRegistered ==
  /\ DOMAIN registry = {"worker"}
  /\ DOMAIN registry["worker"].instances = {CallerTargets[i].alias : i \in Registered}
  /\ DOMAIN objs = {Instance(CallerTargets[i].name, CallerTargets[i].alias) : i \in Registered}
  /\ \A i \in Registered :
       /\ RegisteredObject(i).name = CallerTargets[i].name
       /\ RegisteredObject(i).alias = CallerTargets[i].alias
  /\ DOMAIN processIndex = {RegisteredObject(i).pid : i \in Registered}
  /\ DOMAIN instanceIndex =
       {InstanceKey(CallerTargets[i].name, CallerTargets[i].alias) : i \in Registered}
  /\ DOMAIN globalAliasIndex = {CallerTargets[i].alias : i \in Registered}
  /\ \A i \in Registered :
       /\ processIndex[RegisteredObject(i).pid] = CallerTargets[i]
       /\ instanceIndex[InstanceKey(CallerTargets[i].name, CallerTargets[i].alias)] =
            RegisteredObject(i).pid
       /\ globalAliasIndex[CallerTargets[i].alias] = CallerTargets[i]

\* The instances, the registry and the indices are those run ends with; and
\* the same with the pids left out of the comparison.
EqualsRun(run) ==
  /\ HoldsRegistered
  /\ Registered = {i \in 1..2 : run.inst[i].live}
  /\ \A i \in Registered : RegisteredObject(i) = run.inst[i].sm
WithoutPid(sm) == [sm EXCEPT !.pid = NoPid]
EqualsRunButPids(run) ==
  /\ HoldsRegistered
  /\ Registered = {i \in 1..2 : run.inst[i].live}
  /\ \A i \in Registered : WithoutPid(RegisteredObject(i)) = WithoutPid(run.inst[i].sm)

\* C27: when two callers, each with a sequence of commands on an instance of
\* its own, are through their sequences, however their commands interleaved
\* at the hooks, the instances, the registry and the three indices are those
\* that one of the two sequential runs ends with.
C27_DifferentInstancesIndependent ==
  CallersDone => EqualsRun(SeqFirstThenSecond) \/ EqualsRun(SeqSecondThenFirst)

\* C27, amended: the same up to the values of the pids. The same instances
\* are registered, in the same states, and the registry and the indices hold
\* exactly those, each under its own pid; either sequential run ends so.
C27_IndependentUpToPids ==
  CallersDone =>
    /\ EqualsRunButPids(SeqFirstThenSecond)
    /\ EqualsRunButPids(SeqSecondThenFirst)

\* Both callers are through, the second caller's spawn took its pid between
\* two spawns of the first caller, and both instances are registered.
C27_Witness ==
  /\ CallersDone
  /\ Registered = {1, 2}
  /\ RegisteredObject(1).pid = PidBase + 1
  /\ RegisteredObject(2).pid = PidBase + 2
  /\ pidSeq = PidBase + 3

\* What the autostart driver leaves of the class name when it is through and
\* has logged a failure for the names in failed: no instance of a class it
\* does not start; one instance of a class it starts, under the pid as its
\* alias and active in the class's mode, or, for a failure logged, no instance
\* (onCreate threw) or the one instance CRASHED (onActivate threw).
Autostarted(name, failed) ==
  LET aliases == DOMAIN registry[name].instances
  IN IF ~Autostarts(name) THEN aliases = {} /\ name \notin failed
     ELSE IF name \notin failed
       THEN /\ Cardinality(aliases) = 1
            /\ \A alias \in aliases :
                 /\ alias = PidString(PidOf(name, alias))
                 /\ StateOf(name, alias) =
                      IF registry[name].autostartMode = "foreground"
                        THEN ACTIVE_FOREGROUND ELSE ACTIVE_BACKGROUND
     ELSE /\ HooksOfClass(registry[name].AppClass) # {}
          /\ Cardinality(aliases) <= 1
          /\ \A alias \in aliases : StateOf(name, alias) = CRASHED

\* C28: at boot the autostart driver goes through every registry entry. For
\* a class flagged autostart that has its class loaded, its spawn succeeds
\* unless onCreate throws and its activate, in the class's autostartMode or
\* in the background when it has none, succeeds unless onActivate throws;
\* whatever the spawn or the activate throws, the driver goes on with the
\* entries that remain; and when it is through, every class it starts has its
\* one instance active in its mode unless a failure was logged for that very
\* class.
C28_AutostartIsolatesFailures ==
  [][/\ \A manifest \in Manifests :
          \A order \in Orders(DOMAIN registry \cup DOMAIN manifest) :
            result'.cmd = "setup" /\ Setup(manifest, order) =>
              {pending'[1].todo[i] : i \in DOMAIN pending'[1].todo} = DOMAIN registry'
     /\ \A hb \in HookBehaviours :
          pending # << >> /\ AutostartSpawn(hb, now') =>
            /\ hb = "ok" => result'.err = "none"
            /\ result'.err = "none" =>
                 /\ pending'[1].todo = pending[1].todo
                 /\ \A name \in {Head(pending[1].todo)}, alias \in {pending'[1].alias} :
                      StateOf(name, alias)' = INACTIVE
            /\ result'.err # "none" => pending'[1].todo = Tail(pending[1].todo)
     /\ \A hb \in HookBehaviours :
          pending # << >> /\ AutostartActivate(hb, now') =>
            /\ hb = "ok" => result'.err = "none"
            /\ pending'[1].todo = Tail(pending[1].todo)
     /\ result'.cmd = "autostart" /\ AutostartEnds =>
          \A name \in DOMAIN registry', failed \in {result'.ret} :
            Autostarted(name, failed)']_vars

\* The driver is through: it logged the failure of worker, whose onCreate
\* threw, and reader, which came after worker, is active in the background
\* under the pid that followed.
C28_Witness ==
  /\ result.cmd = "autostart"
  /\ result.ret = {"worker"}
  /\ Has(registry, "worker") /\ Autostarts("worker")
  /\ DOMAIN registry["worker"].instances = {}
  /\ Has(registry, "reader") /\ Autostarts("reader")
  /\ DOMAIN registry["reader"].instances = {PidString(PidBase + 2)}
  /\ StateOf("reader", PidString(PidBase + 2)) = ACTIVE_BACKGROUND

\* For the instance under (name, alias): statusByPid of its pid gives what
\* status(name, alias) gives, and callByPid of its pid what call(name, alias)
\* gives, whatever the API objects do with the method.
SameByPid(name, alias) ==
  /\ StatusByPidOf(PidOf(name, alias)) = StatusOf(name, alias)
  /\ \A b \in ApiBehaviours :
       CallByPidOf(PidOf(name, alias), [ref \in DOMAIN objs |-> b]) =
         CallOf(name, alias, [ref \in DOMAIN objs |-> b])

\* C29: for every live instance, registered under (name, alias) with pid h,
\* statusByPid(h) returns the snapshot status(name, alias) returns,
\* callByPid(h, m) returns or throws what call(name, alias, m) does, and
\* stopByPid(h, opts) does what stop(name, alias, opts) does; renamed
\* instances included.
C29_ByPidEquivalent ==
  /\ [](\A pair \in Live : SameByPid(pair[1], pair[2]))
  /\ [][\A pair \in Live : \A pid \in {PidOf(pair[1], pair[2])} :
         \A force \in BOOLEAN, hb \in HookBehaviours :
           StopByPid(pid, force, hb, now') <=> Stop(pair[1], pair[2], force, hb, now')]_vars

\* The instance object ref is in no alias map and its pid in no index.
Unregistered(ref, pid) ==
  /\ \A name \in DOMAIN registry : \A alias \in DOMAIN registry[name].instances :
       registry[name].instances[alias] # ref
  /\ ~Has(processIndex, pid)
  /\ \A key \in DOMAIN instanceIndex : instanceIndex[key] # pid
  /\ \A alias \in DOMAIN globalAliasIndex :
       Instance(globalAliasIndex[alias].name, alias) # ref

\* C30: when a stop that waited for onTerminate ends without error, its
\* instance is in no alias map and its pid in no index, a rename of the
\* instance while the hook was pending notwithstanding, and no instance that
\* is registered is TERMINATED.
C30_StopRemovesRenamed ==
  [][result'.cmd = "stop" /\ result'.err = "none" =>
       \A i \in DOMAIN pending, hb \in HookBehaviours :
         \A ref \in {pending[i].ref} : \A pid \in {objs[ref].pid} :
           pending[i].cmd = "stop" /\ Settle(i, hb, now') =>
             /\ Unregistered(ref, pid)'
             /\ \A pair \in Live' : StateOf(pair[1], pair[2])' # TERMINATED]_vars

\* C31: while a spawn(name, alias) waits for onCreate, a second spawn with the
\* same name and alias constructs no app and calls no onCreate; and when a
\* spawn that waited returns, the pid index has exactly one entry for its
\* name and alias, the pid it returns.
C31_OverlappingSpawnsCreateOnce ==
  [][/\ \A i \in DOMAIN pending, aliasArg \in SpawnArgs :
          /\ pending[i].cmd = "spawn"
          /\ SpawnAlias(aliasArg, NextPid) = pending[i].alias
          /\ SpawnCall(pending[i].name, aliasArg, now')
          => result'.ctor = FALSE /\ result'.hooks = << >>
     /\ \A i \in DOMAIN pending, hb \in HookBehaviours :
          /\ pending[i].cmd = "spawn"
          /\ result'.cmd = "spawn" /\ result'.err = "none"
          /\ Settle(i, hb, now')
          => \A pid \in DOMAIN processIndex' :
               (processIndex'[pid] = [name |-> pending[i].name, alias |-> pending[i].alias])
                 <=> pid = result'.ret.pid]_vars

\* C32: CRASHED is absorbing under overlapping commands. The state machine of
\* an instance that is CRASHED stays CRASHED at every step, the end of a
\* command whose hook was called before the crash included.
C32_CrashedAbsorbingOverlapping ==
  [][\A ref \in DOMAIN objs :
       objs[ref].state = CRASHED /\ ref \in DOMAIN objs' /\ objs'[ref].pid = objs[ref].pid
         => objs'[ref].state = CRASHED]_vars

\* C33: an instance leaves the registry only in TERMINATED, and onTerminate is
\* called at most once on it. No two stops wait for onTerminate on the same
\* instance; and a stop that takes an instance out of the alias maps has
\* driven it to TERMINATED with its last transition, commands that overlap
\* the stop notwithstanding.
C33_RemovedOnlyTerminated ==
  /\ [](\A i, j \in DOMAIN pending :
          /\ pending[i].cmd = "stop" /\ pending[j].cmd = "stop"
          /\ pending[i].ref = pending[j].ref
          => i = j)
  /\ [][Live' # Live /\ Live' \subseteq Live =>
          /\ result'.cmd = "stop"
          /\ result'.records # << >>
          /\ result'.records[Len(result'.records)].to = TERMINATED]_vars

\* C34: setAlias on a handle a caller has kept changes the alias of no
\* instance other than the one the handle was obtained for: every other live
\* instance is registered after it under the name and alias it had before.
C34_HandleRenamesItsInstance ==
  [][\A i \in DOMAIN pending, newAlias \in UserAliases :
       result'.cmd = "setAlias" /\ KeptSetAlias(i, newAlias) =>
         \A pair \in Live : \A pid \in {PidOf(pair[1], pair[2])} :
           pid # pending[i].pid =>
             /\ pair \in Live'
             /\ PidOf(pair[1], pair[2])' = pid]_vars

\* C35: hooks and observers see the alias under which the instance is
\* registered. When activate, suspend or stop is called on the instance
\* registered under (name, alias), renamed or not, every hook it calls gets a
\* context with that alias and every transition record it emits carries it.
C35_HooksSeeCurrentAlias ==
  [][\A pair \in Live, force \in BOOLEAN :
       \/ ActivateCall(pair[1], pair[2], "foreground", now')
       \/ SuspendCall(pair[1], pair[2], now')
       \/ StopCall(pair[1], pair[2], force, now')
       => /\ \A k \in DOMAIN result'.hooks : result'.hooks[k].ctx.alias = pair[2]
          /\ \A k \in DOMAIN result'.records : result'.records[k].alias = pair[2]]_vars

\* C36: spawn(name) without an alias, when it returns, has constructed a new
\* instance and registered it under the decimal string of the pid it has just
\* allocated, and returns that alias and pid, whatever aliases the instances
\* of the app have.
C36_DefaultAliasIsOwnPid ==
  [][result'.cmd = "spawn" /\ result'.err = "none" =>
       \A name \in Names, hb \in HookBehaviours :
         \A pid \in {pidSeq'} :
           Spawn(name, NoAlias, hb, now') =>
             /\ result'.ctor
             /\ result'.ret = [alias |-> PidString(pid), pid |-> pid]
             /\ Instance(name, PidString(pid)) = NoRef
             /\ Instance(name, PidString(pid))' # NoRef
             /\ PidOf(name, PidString(pid))' = pid]_vars

\* C37: spawn(name, alias) for an app that already has an instance under the
\* alias changes nothing: the registry, the indices, the instances and the
\* pid counter are as they were, so that the next instance created gets the
\* pid after the last pid an instance was created with.
C37_SpawnExistingKeepsCounter ==
  [][result'.cmd = "spawn" =>
       \A name \in Names, alias \in UserAliases \cup {""}, hb \in HookBehaviours :
         Instance(name, alias) # NoRef /\ Spawn(name, alias, hb, now') =>
           UNCHANGED << stores, objs, pidSeq >>]_vars

\* C38: a spawn(name, alias) whose onCreate throws rethrows the error and
\* leaves the registry, the three indices and the instances as they were;
\* and a spawn of a registered app under an alias the app has no instance
\* under, its hook returning (after such a failure as at any other time),
\* registers a new instance, INACTIVE, under the alias and the pid after the
\* last pid taken.
C38_FailedSpawnRegistersNothing ==
  [][result'.cmd = "spawn" =>
       \A name \in DOMAIN registry, aliasArg \in SpawnArgs, hb \in HookBehaviours :
         \A pid \in {pidSeq + 1} : \A alias \in {SpawnAlias(aliasArg, pid)} :
           Spawn(name, aliasArg, hb, now') /\ Instance(name, alias) = NoRef =>
             /\ result'.err = (IF hb = "throw" THEN "HookFailure" ELSE "none")
             /\ hb = "throw" =>
                  /\ Calls(result'.hooks, "onCreate") = 1
                  /\ UNCHANGED << stores, objs >>
             /\ hb = "ok" =>
                  /\ result'.ret = [alias |-> alias, pid |-> pid]
                  /\ Instance(name, alias)' # NoRef
                  /\ StateOf(name, alias)' = INACTIVE
                  /\ PidOf(name, alias)' = pid
                  /\ processIndex' = MapSet(processIndex, pid,
                                            [name |-> name, alias |-> alias])]_vars

\* A spawn of worker has just rethrown what onCreate threw: the pid is taken,
\* and there is no instance and no index entry.
C38_Witness ==
  /\ result.cmd = "spawn"
  /\ result.err = "HookFailure"
  /\ pidSeq = PidBase + 1
  /\ Live = {}
  /\ objs = EmptyMap
  /\ processIndex = EmptyMap /\ instanceIndex = EmptyMap /\ globalAliasIndex = EmptyMap

\* C39: a stop(name, alias) without force whose onTerminate throws rethrows
\* the error and leaves the instance registered, in CRASHED: the app's alias
\* map still holds it under the alias, and the three indices still hold its
\* entries, which agree with one another (the pid index maps its pid to
\* (name, alias), the instance index maps name:alias to its pid, the global
\* alias index maps the alias to (name, alias)).
C39_FailedStopRemovesNothing ==
  [][result'.cmd = "stop" /\ result'.err = "HookFailure" =>
       \A pair \in Live :
         \A ref \in {Instance(pair[1], pair[2])} : \A pid \in {PidOf(pair[1], pair[2])} :
           Stop(pair[1], pair[2], FALSE, "throw", now') =>
             /\ Calls(result'.hooks, "onTerminate") = 1
             /\ Instance(pair[1], pair[2])' = ref
             /\ objs'[ref].state = CRASHED
             /\ objs'[ref].pid = pid
             /\ Has(processIndex', pid)
             /\ processIndex'[pid] = [name |-> pair[1], alias |-> pair[2]]
             /\ Has(instanceIndex', InstanceKey(pair[1], pair[2]))
             /\ instanceIndex'[InstanceKey(pair[1], pair[2])] = pid
             /\ Has(globalAliasIndex', pair[2])
             /\ globalAliasIndex'[pair[2]] = [name |-> pair[1], alias |-> pair[2]]]_vars

\* C40: with commands issued one at a time, the pid index and the instance
\* index are inverses of each other over the live instances: the pid index
\* holds exactly the pids of the live instances, the instance index exactly
\* their name:alias keys, the instance index maps each live (name, alias) to
\* the pid stored on the instance registered under it, and the pid index maps
\* that pid back to (name, alias).
C40_PidIndicesInverse ==
  /\ DOMAIN processIndex = {PidOf(pair[1], pair[2]) : pair \in Live}
  /\ DOMAIN instanceIndex = {InstanceKey(pair[1], pair[2]) : pair \in Live}
  /\ \A pair \in Live :
       /\ instanceIndex[InstanceKey(pair[1], pair[2])] = PidOf(pair[1], pair[2])
       /\ processIndex[PidOf(pair[1], pair[2])] = [name |-> pair[1], alias |-> pair[2]]
  /\ \A pid \in DOMAIN processIndex :
       instanceIndex[InstanceKey(processIndex[pid].name, processIndex[pid].alias)] = pid

\* One instance has been stopped and removed and the other, renamed since it
\* was spawned, is live with its entry in each of the two indices.
C40_Witness ==
  /\ result.cmd = "stop"
  /\ result.err = "none"
  /\ pidSeq = PidBase + 2
  /\ Cardinality(Live) = 1
  /\ \E pair \in Live :
       /\ objs[Instance(pair[1], pair[2])].alias # pair[2]
       /\ processIndex = MapSet(EmptyMap, PidOf(pair[1], pair[2]),
                                [name |-> pair[1], alias |-> pair[2]])
       /\ instanceIndex = MapSet(EmptyMap, InstanceKey(pair[1], pair[2]),
                                 PidOf(pair[1], pair[2]))

====
